---- MODULE Spec2Model ----
(***************************************************************************)
(* LyriSync+ : the synchronization bridge between OpenLP (lyrics source,   *)
(* WebSocket) and vMix (video target, HTTP).  Model of main.py and         *)
(* vmix_openlp_handler.py.                                                 *)
(*                                                                         *)
(* Strings are sequences of one-character strings, so that upper(),        *)
(* lower(), strip(), split() and len() are computed, not assumed.          *)
(***************************************************************************)
EXTENDS Integers, Sequences, FiniteSets, TLC

(***************************************************************************)
(* Bounds of the model                                                     *)
(***************************************************************************)
MaxTextLen == 6
MaxWidth == 3

(***************************************************************************)
(* Python string helpers                                                   *)
(***************************************************************************)
Chars == {"a", "B", " ", "\n"}

\* bug variant: only the blank counts as whitespace
IsSpaceBlankOnly(c) == c = " "

IsSpace(c) == c \in {" ", "\n", "\t"}

\* str.upper(), one character
UpperChar(c) ==
  CASE c = "a" -> "A" [] c = "b" -> "B" [] c = "h" -> "H" [] c = "i" -> "I"
    [] c = "y" -> "Y" [] c = "o" -> "O"
    [] OTHER -> c

\* str.lower(), one character
LowerChar(c) ==
  CASE c = "A" -> "a" [] c = "B" -> "b" [] c = "C" -> "c" [] c = "E" -> "e"
    [] c = "K" -> "k" [] c = "L" -> "l" [] c = "N" -> "n" [] c = "R" -> "r"
    [] c = "H" -> "h" [] c = "I" -> "i" [] c = "T" -> "t" [] c = "F" -> "f"
    [] c = "U" -> "u" [] c = "S" -> "s"
    [] OTHER -> c

Upper(s) == [i \in 1..Len(s) |-> UpperChar(s[i])]

Lower(s) == [i \in 1..Len(s) |-> LowerChar(s[i])]

RECURSIVE LStrip(_)
LStrip(s) == IF s # <<>> /\ IsSpace(Head(s)) THEN LStrip(Tail(s)) ELSE s

RECURSIVE RStrip(_)
RStrip(s) ==
  IF s # <<>> /\ IsSpace(s[Len(s)]) THEN RStrip(SubSeq(s, 1, Len(s) - 1)) ELSE s

\* str.strip()
Strip(s) == RStrip(LStrip(s))

\* str.split() with no argument: the maximal runs of non-whitespace
RECURSIVE SplitFrom(_, _, _)
SplitFrom(s, i, cur) ==
  IF i > Len(s)
    THEN (IF cur = <<>> THEN <<>> ELSE <<cur>>)
    ELSE IF IsSpace(s[i])
      THEN (IF cur = <<>> THEN <<>> ELSE <<cur>>) \o SplitFrom(s, i + 1, <<>>)
      ELSE SplitFrom(s, i + 1, Append(cur, s[i]))

Split(s) == SplitFrom(s, 1, <<>>)

\* bug variant: a word longer than max_chars is refused by an empty line 1
WrapStepStrict(st, w, max_chars) ==
  LET cand  == IF st[1] # <<>> THEN Strip(st[1] \o <<" ">> \o w) ELSE w
      cand2 == IF st[2] # <<>> THEN Strip(st[2] \o <<" ">> \o w) ELSE w
  IN IF Len(cand) <= max_chars THEN <<cand, st[2]>> ELSE <<st[1], cand2>>

\* one iteration of the for loop of soft_wrap: st = <<line1, line2>>
WrapStep(st, w, max_chars) ==
  LET line1 == st[1]
      line2 == st[2]
      cand  == IF line1 # <<>> THEN Strip(line1 \o <<" ">> \o w) ELSE w
      cand2 == IF line2 # <<>> THEN Strip(line2 \o <<" ">> \o w) ELSE w
  IN IF Len(cand) <= max_chars \/ line1 = <<>>
       THEN <<cand, line2>>
       ELSE <<line1, cand2>>

RECURSIVE WrapLoop(_, _, _)
WrapLoop(st, words, max_chars) ==
  IF words = <<>> THEN st
  ELSE WrapLoop(WrapStep(st, Head(words), max_chars), Tail(words), max_chars)

\* the pair <<line1, line2>> soft_wrap ends its loop with
WrapLines(text, max_chars) == WrapLoop(<<<<>>, <<>>>>, Split(Strip(text)), max_chars)

\* bug variant: a text without words is returned as it is
soft_wrap_keeps_blank(text, max_chars) ==
  IF text = <<>> \/ max_chars <= 0 \/ Split(Strip(text)) = <<>> THEN text
  ELSE LET st == WrapLines(text, max_chars) IN
       IF st[2] = <<>> THEN st[1] ELSE st[1] \o <<"\n">> \o st[2]

soft_wrap(text, max_chars) ==
  IF text = <<>> \/ max_chars <= 0 THEN text
  ELSE LET words == Split(Strip(text)) IN
       IF words = <<>> THEN <<>>
       ELSE LET st == WrapLoop(<<<<>>, <<>>>>, words, max_chars) IN
            IF st[2] = <<>> THEN st[1] ELSE st[1] \o <<"\n">> \o st[2]

(***************************************************************************)
(* Source messages (OpenLP WebSocket frames) and _process_message          *)
(***************************************************************************)
\* JSON field values: a missing key, null, or a string
Absent == [t |-> "absent", s |-> <<>>]
Null == [t |-> "null", s |-> <<>>]
Str(s) == [t |-> "str", s |-> s]

\* a frame: kind "obj" is a str holding a JSON object, "badjson" a str that is
\* not JSON, "nonobj" a str holding JSON that is not an object (a list),
\* "bytes" a binary frame
Obj(text, typ, act) == [kind |-> "obj", text |-> text, type |-> typ, action |-> act]
BadJson == [kind |-> "badjson", text |-> Absent, type |-> Absent, action |-> Absent]
NonObj == [kind |-> "nonobj", text |-> Absent, type |-> Absent, action |-> Absent]
Bytes == [kind |-> "bytes", text |-> Absent, type |-> Absent, action |-> Absent]

\* data = json.loads(message) if isinstance(message, str) else {}; except: data = {}
\* the result is a dict (possibly the empty one) unless the JSON is not an object
ParseIsDict(m) == m.kind # "nonobj"

\* data.get(key, "") of the parsed dict: a frame that did not parse is {}
Field(m, v) == IF m.kind = "obj" THEN v ELSE Absent

\* str(data.get("text", "") or "")
TextOf(v) == IF v.t = "str" THEN v.s ELSE <<>>

\* str(data.get(key, "")): str(None) is "None"
PyStr(v) ==
  CASE v.t = "str" -> v.s
    [] v.t = "null" -> <<"N", "o", "n", "e">>
    [] OTHER -> <<>>

BlankWords == {<<"b", "l", "a", "n", "k">>, <<"c", "l", "e", "a", "r">>}

\* bug variant: only the text decides
ClassifyBlankTextOnly(m) ==
  ParseIsDict(m) /\ Strip(TextOf(Field(m, m.text))) = <<>>

\* the pair (text, is_blank) _process_message hands to on_new_lyrics
ClassifyText(m) == IF ParseIsDict(m) THEN TextOf(Field(m, m.text)) ELSE <<>>

ClassifyBlank(m) ==
  IF ParseIsDict(m)
    THEN LET text == TextOf(Field(m, m.text))
             typ  == Lower(PyStr(Field(m, m.type)))
             act  == Lower(PyStr(Field(m, m.action)))
         IN \/ Strip(text) = <<>>
            \/ typ \in BlankWords
            \/ act \in BlankWords
    ELSE FALSE

\* cb((text, is_blank)) is called for every frame, whatever it parsed to
RaisesEvent(m) == TRUE

TextValues ==
  {Absent, Null, Str(<<>>), Str(<<" ", "\n">>), Str(<<"h", "i">>)}

TagValues ==
  {Absent, Null, Str(<<"b", "l", "a", "n", "k">>),
   Str(<<"B", "l", "a", "n", "K">>), Str(<<"C", "L", "E", "A", "R">>),
   Str(<<" ", "b", "l", "a", "n", "k">>), Str(<<"b", "l", "a", "n">>)}

AllMessages ==
  {Obj(x, y, z) : x \in TextValues, y \in TagValues, z \in TagValues}
    \cup {BadJson, NonObj, Bytes}

\* the frames the bridge specification draws from
BridgeMessages ==
  {Obj(Str(<<"h", "i", " ", "y", "o">>), Absent, Absent),
   Obj(Str(<<>>), Absent, Absent),
   BadJson}

(***************************************************************************)
(* More bounds                                                             *)
(***************************************************************************)
MaxBundles == 2
MaxMappings == 1
MaxOps == 2
MaxFailures == 1
MaxBackoffAttempts == 6
MaxListenerMsgs == 1
MaxIdleOps == 1
MaxTime == 3
MaxCmdOps == 2
MaxStarts == 2
MaxLifeAttempts == 3
MaxHealthTicks == 1
MaxWatchOps == 1
MaxWatchAttempts == 2
MaxVmixOps == 3
MaxIdleWatchOps == 2
MaxThreadStarts == 4

(***************************************************************************)
(* State                                                                   *)
(***************************************************************************)
VARIABLES
  wText,           \* soft_wrap harness: the argument text
  wN,              \* soft_wrap harness: the argument max_chars
  wOut,            \* soft_wrap harness: the returned string
  wDone,           \* soft_wrap harness: the call has returned
  lim,             \* the limits of the run: [attempts, ops, starts]
  conns,           \* connections: the number of mappings of each ConnBundle
  settings,        \* the settings dict (frozen for the run)
  phase,           \* where the main thread is: boot, startup, mainloop, closing, closed
  loopRunning,     \* the bridge loop is inside run_until_complete
  shutdown_event,  \* shutdown_event.is_set()
  lyrics,          \* app_state["lyrics"]
  last_lyrics_ts,  \* last_lyrics_ts (0 is unset)
  now,             \* time.time(), in whole units
  lis,             \* per bundle: the OpenLPController and its _listen_ws loop
  session,         \* per bundle: VmixController._session: none, open
  ready,           \* the bridge loop's queue of ready callbacks (FIFO)
  tasks,           \* the coroutines scheduled on the bridge loop
  calls,           \* the vMix HTTP calls begun so far, in the order they began
  nMsgs,           \* frames received so far, over all listeners
  nCmds,           \* GUI commands so far
  lastMsg,         \* the frame most recently handed to _process_message
  lastEvent,       \* the (text, is_blank) most recently handed to on_new_lyrics
  nEvents,         \* number of on_new_lyrics calls so far
  lastStored,      \* the argument of the most recent update_lyrics call
  recording,       \* app_state["recording"]
  lastIssued,      \* per source (0: not a listener): the last task whose wave was sent
  accesses,        \* the sites that have read or written the lyrics or their stamp
  connections_ok,  \* app_state["connections_ok"]
  overlay_on,      \* app_state["overlay_on"]
  lastPoll,        \* the answer to the last request of poll_status
  nTicks           \* passes of health_watcher so far

wvars == <<wText, wN, wOut, wDone>>
cfgvars == <<lim, conns, settings>>
mainvars == <<phase, loopRunning, shutdown_event>>
statevars == <<lyrics, last_lyrics_ts, lastStored>>
loopvars == <<ready, tasks, calls, session>>
msgvars == <<nMsgs, lastMsg, lastEvent, nEvents>>
dispvars == <<connections_ok, overlay_on, lastPoll, nTicks>>

vars == <<recording, wText, wN, wOut, wDone, lim, conns, settings, phase, loopRunning,
          shutdown_event, lyrics, last_lyrics_ts, now, lis, session, ready, tasks,
          calls, nMsgs, nCmds, lastMsg, lastEvent, nEvents, lastStored, lastIssued,
          accesses, connections_ok, overlay_on, lastPoll, nTicks>>

Bundles == 1..Len(conns)

\* sum over bundles of len(bundle.mappings)
RECURSIVE SumSeq(_)
SumSeq(s) == IF s = <<>> THEN 0 ELSE Head(s) + SumSeq(Tail(s))

TotalMappings == SumSeq(conns)

\* the (bundle, mapping) pairs in the order of the nested for loops
RECURSIVE TargetsFrom(_, _, _)
TargetsFrom(cs, b, m) ==
  IF b > Len(cs) THEN <<>>
  ELSE IF m > cs[b] THEN TargetsFrom(cs, b + 1, 1)
  ELSE <<[b |-> b, m |-> m]>> \o TargetsFrom(cs, b, m + 1)

\* bug variant: only the first bundle is addressed
TargetsFirstBundle == TargetsFrom(<<conns[1]>>, 1, 1)

Targets == TargetsFrom(conns, 1, 1)

RECURSIVE SeqsOver(_, _)
SeqsOver(S, n) ==
  IF n = 0 THEN {<<>>} ELSE {Append(s, x) : s \in SeqsOver(S, n - 1), x \in S}

\* the "mappings" of a connection object of the configuration file: the key is
\* missing (written -1), or a list of 0..MaxMappings mappings: main.py 304
\* takes what the file holds, and _import_connections_json checks no object
NoMappingsKey == -1
ConfigMappings == {NoMappingsKey} \cup (0..MaxMappings)

\* config["connections"]: up to MaxBundles connection objects
ConfigConnections == UNION {SeqsOver(ConfigMappings, n) : n \in 0..MaxBundles}

\* mappings = c.get("mappings") or []
bundle_mappings(c) == IF c = NoMappingsKey THEN 0 ELSE c

\* the ConnBundles built at start-up, one per connection object; with no
\* connection object, one bundle with the legacy mapping
build_connections(cfg) ==
  IF cfg = <<>> THEN <<1>> ELSE [i \in 1..Len(cfg) |-> bundle_mappings(cfg[i])]

\* every bundle list the configuration can give: 1..MaxBundles bundles with
\* 0..MaxMappings mappings each
ConnConfigs == {build_connections(cfg) : cfg \in ConfigConnections}

MaxChars == 3
IdleSec == 1

Setting(always, onsend, outclear, cob, idle, ch) ==
  [max_chars_per_line |-> MaxChars, overlay_always_on |-> always, overlay_channel |-> ch,
   auto_overlay_on_send |-> onsend, auto_overlay_out_on_clear |-> outclear,
   clear_on_blank |-> cob, auto_clear_idle_sec |-> idle]

SettingsSet ==
  {Setting(FALSE, TRUE, TRUE, TRUE, IdleSec, 1),
   Setting(TRUE, TRUE, TRUE, TRUE, 0, 2),
   Setting(FALSE, FALSE, FALSE, FALSE, IdleSec, 4)}

NoMsg == [kind |-> "none", text |-> Absent, type |-> Absent, action |-> Absent]
NoEvent == [b |-> 0, text |-> <<>>, blank |-> FALSE]

\* poll_status has not asked yet
NoPoll == [kind |-> "none", recording |-> <<>>, overlay1 |-> <<>>]

NewListener(ok) ==
  [pc |-> "new", running |-> FALSE, uri_ok |-> ok, backoff |-> 0, attempts |-> 0,
   last_slide |-> <<>>, slept |-> 0, waited |-> 0, sinceReset |-> 0,
   threads |-> 0, starts |-> 0, stopped_in |-> "none",
   on_connects |-> 0, on_disconnects |-> 0, last_cb |-> "none",
   thr |-> <<>>, loop_of |-> 0]

Task(action, src, ev, arg) ==
  [action |-> action, src |-> src, ev |-> ev, arg |-> arg, payload |-> <<>>,
   pc |-> "new", pending |-> 0, wake |-> 0, cur_ts |-> 0]

Entry(k, t, b, m) == [k |-> k, t |-> t, b |-> b, m |-> m]

(***************************************************************************)
(* update_lyrics and the event wiring (main.py)                            *)
(***************************************************************************)
\* bug variant: the callback jumps the queue
EnqueueFront(q, e) == <<e>> \o q

\* run_coroutine_threadsafe -> loop.call_soon_threadsafe: the callback goes to the
\* end of the loop's ready queue
Enqueue(q, e) == Append(q, e)

\* bug variant: the text is stored upper-cased
update_lyrics_upper(text) == Upper(text)

\* app_state["lyrics"] = text or ""
update_lyrics_value(text) == text

\* bug variant: the stamp is left unset
update_lyrics_ts_unset(clock) == 0

\* last_lyrics_ts = time.time()
update_lyrics_ts(clock) == clock

\* is the coroutine on_new_lyrics schedules
EventAction(is_blank) ==
  IF is_blank /\ settings.clear_on_blank THEN "clear_lyrics" ELSE "show_lyrics"

\* the global `loop` is assigned only when the main thread leaves boot
LoopDefined == phase # "boot"

\* bug variant: on_new_lyrics waits for the result of the dispatch it made
on_new_lyrics_waits(tk, b) == \E t \in 1..Len(tk) : tk[t].src = b /\ tk[t].pc # "done"

\* the listener of bundle b is held up in on_new_lyrics by the coroutines tk:
\* never, the future of run_coroutine_threadsafe is dropped and the callback
\* returns to _process_message at once
on_new_lyrics_blocked(tk, b) == FALSE

(***************************************************************************)
(* OpenLPController (vmix_openlp_handler.py)                               *)
(***************************************************************************)
BackoffFloor == 2
MaxBackoff == 15
InvalidUriSleep == 5

Min(a, b) == IF a <= b THEN a ELSE b

\* bug variant: no ceiling
NextBackoffUncapped(backoff) == backoff * 2

\* backoff = min(max_backoff, backoff * 2)
NextBackoff(backoff) == Min(MaxBackoff, backoff * 2)

\* backoff = 2  # reset after good connect
ResetBackoff == BackoffFloor

\* bug variant: start() without the `if self.running: return`
start_again(l) ==
  [l EXCEPT !.running = TRUE, !.pc = "connecting", !.backoff = BackoffFloor,
            !.slept = 0, !.waited = 0, !.sinceReset = 0,
            !.threads = @ + 1, !.stopped_in = "none"]

\* start(): no-op when already running, else a new thread enters _listen_ws
\* with backoff = 2
start(l) ==
  IF l.running THEN l
  ELSE [l EXCEPT !.running = TRUE, !.pc = "connecting", !.backoff = BackoffFloor,
                 !.slept = 0, !.waited = 0, !.sinceReset = 0,
                 !.threads = @ + 1, !.stopped_in = "none"]

\* stop(): running = False, and loop.stop is handed to the listener's loop
stop(l) == [l EXCEPT !.running = FALSE, !.stopped_in = l.pc]

\* bug variant: only the flag ends the loop, the backoff sleep runs to its end
after_stop_sleeps(l) ==
  IF l.pc = "sleeping"
    THEN [l EXCEPT !.pc = "exited", !.slept = l.backoff, !.waited = @ + l.backoff]
    ELSE [l EXCEPT !.pc = "exited"]

\* the listener's loop runs loop.stop: run_until_complete raises RuntimeError,
\* _run_async swallows it and closes the loop; the thread ends where it was
after_stop(l) == [l EXCEPT !.pc = "exited"]

\* a call of start(), the first or a later one
StartListener(b) ==
  /\ phase = "boot"
  /\ lis[b].starts < lim.starts
  /\ lis[b].running \/ lis[b].pc \in {"new", "exited"}
  /\ lis' = [lis EXCEPT ![b] = [start(lis[b]) EXCEPT !.starts = @ + 1]]
  /\ UNCHANGED <<accesses, dispvars, recording, lastIssued, wvars, cfgvars, mainvars, statevars, now, loopvars, msgvars, nCmds>>

\* stop() from another thread, while the listener's thread is alive
StopListener(b) ==
  /\ lis[b].running
  /\ lis' = [lis EXCEPT ![b] = stop(lis[b])]
  /\ UNCHANGED <<accesses, dispvars, recording, lastIssued, wvars, cfgvars, mainvars, statevars, now, loopvars, msgvars, nCmds>>

\* the stopped listener's thread ends
ListenerExit(b) ==
  /\ ~lis[b].running
  /\ lis[b].pc \notin {"new", "exited"}
  /\ lis' = [lis EXCEPT ![b] = after_stop(lis[b])]
  /\ UNCHANGED <<accesses, dispvars, recording, lastIssued, wvars, cfgvars, mainvars, statevars, now, loopvars, msgvars, nCmds>>

\* The threads of one listener taken one by one (StartListener above takes
\* start(), the new thread's self._loop = new_event_loop() and its arrival at
\* `while self.running` as one step).  thr holds each thread's place: created,
\* assigned (self._loop is its loop), looping (inside the while of _listen_ws),
\* stopping (its loop has been handed loop.stop), exited; loop_of is the thread
\* whose loop self._loop names (0: None).

\* start(): `if self.running: return`, else running = True and a new thread
CallStart(b) ==
  /\ lis[b].starts < lim.starts
  /\ lis' = [lis EXCEPT ![b] =
               IF lis[b].running THEN [lis[b] EXCEPT !.starts = @ + 1]
               ELSE [lis[b] EXCEPT !.starts = @ + 1, !.running = TRUE,
                                   !.thr = Append(@, "created")]]
  /\ UNCHANGED <<accesses, dispvars, recording, lastIssued, wvars, cfgvars, mainvars, statevars, now, loopvars, msgvars, nCmds>>

\* _run_async, first lines: self._loop = asyncio.new_event_loop()
ThreadAssignLoop(b, i) ==
  /\ i \in 1..Len(lis[b].thr)
  /\ lis[b].thr[i] = "created"
  /\ lis' = [lis EXCEPT ![b].thr[i] = "assigned", ![b].loop_of = i]
  /\ UNCHANGED <<accesses, dispvars, recording, lastIssued, wvars, cfgvars, mainvars, statevars, now, loopvars, msgvars, nCmds>>

\* run_until_complete(self._listen_ws()): the first test of `while self.running`
ThreadEnters(b, i) ==
  /\ i \in 1..Len(lis[b].thr)
  /\ lis[b].thr[i] = "assigned"
  /\ lis' = [lis EXCEPT ![b].thr[i] = IF lis[b].running THEN "looping" ELSE "exited"]
  /\ UNCHANGED <<accesses, dispvars, recording, lastIssued, wvars, cfgvars, mainvars, statevars, now, loopvars, msgvars, nCmds>>

\* self._loop.is_running(): the loop self._loop names is inside run_until_complete
loop_is_running(l) == l.loop_of # 0 /\ l.thr[l.loop_of] \in {"looping", "stopping"}

\* stop(): running = False; loop.stop is handed to self._loop if it is running
CallStop(b) ==
  /\ lis[b].thr # <<>>
  /\ lis' = [lis EXCEPT ![b] =
               IF loop_is_running(lis[b])
                 THEN [lis[b] EXCEPT !.running = FALSE, !.thr[lis[b].loop_of] = "stopping"]
                 ELSE [lis[b] EXCEPT !.running = FALSE]]
  /\ UNCHANGED <<accesses, dispvars, recording, lastIssued, wvars, cfgvars, mainvars, statevars, now, loopvars, msgvars, nCmds>>

\* a thread's loop runs loop.stop: run_until_complete raises, _run_async ends
ThreadStopped(b, i) ==
  /\ i \in 1..Len(lis[b].thr)
  /\ lis[b].thr[i] = "stopping"
  /\ lis' = [lis EXCEPT ![b].thr[i] = "exited"]
  /\ UNCHANGED <<accesses, dispvars, recording, lastIssued, wvars, cfgvars, mainvars, statevars, now, loopvars, msgvars, nCmds>>

\* a thread inside the while finds self.running false at its next test
ThreadSeesFlag(b, i) ==
  /\ i \in 1..Len(lis[b].thr)
  /\ lis[b].thr[i] = "looping"
  /\ ~lis[b].running
  /\ lis' = [lis EXCEPT ![b].thr[i] = "exited"]
  /\ UNCHANGED <<accesses, dispvars, recording, lastIssued, wvars, cfgvars, mainvars, statevars, now, loopvars, msgvars, nCmds>>

\* websockets.connect(...) succeeded: on_connect(), backoff reset
ConnectOk(b) ==
  /\ lis[b].pc = "connecting" /\ lis[b].running
  /\ lis[b].uri_ok
  /\ lis[b].attempts < lim.attempts
  /\ lis' = [lis EXCEPT ![b].pc = "connected", ![b].backoff = ResetBackoff,
                        ![b].attempts = @ + 1, ![b].sinceReset = 0,
                        ![b].on_connects = @ + 1, ![b].last_cb = "on_connect"]
  /\ UNCHANGED <<accesses, dispvars, recording, lastIssued, wvars, cfgvars, mainvars, statevars, now, loopvars, msgvars, nCmds>>

\* bug variant: InvalidURI is not caught and ends _listen_ws
after_connect_error_fatal(uri_ok) == IF uri_ok THEN "sleeping" ELSE "exited"

\* where _listen_ws goes when websockets.connect raised: `except InvalidURI`
\* sleeps 5 first, `except Exception: pass` goes on to the backoff sleep
after_connect_error(uri_ok) == IF uri_ok THEN "sleeping" ELSE "sleep5"

\* the on_disconnect() calls made on the way out of a failed connect: one
\* after `except Exception: pass`, none yet inside `except InvalidURI`
disconnects_on_error(uri_ok) == IF uri_ok THEN 1 ELSE 0

\* websockets.connect(...) raised: InvalidURI sleeps 5 first, anything else
\* goes straight to on_disconnect() and the backoff sleep
ConnectFail(b) ==
  /\ lis[b].pc = "connecting" /\ lis[b].running
  /\ lis[b].attempts < lim.attempts
  /\ lis' = [lis EXCEPT ![b].pc = after_connect_error(lis[b].uri_ok),
                        ![b].attempts = @ + 1, ![b].waited = 0,
                        ![b].on_disconnects = @ + disconnects_on_error(lis[b].uri_ok),
                        ![b].last_cb = IF disconnects_on_error(lis[b].uri_ok) > 0
                                         THEN "on_disconnect" ELSE @]
  /\ UNCHANGED <<accesses, dispvars, recording, lastIssued, wvars, cfgvars, mainvars, statevars, now, loopvars, msgvars, nCmds>>

\* await asyncio.sleep(5) of the InvalidURI handler is over; on_disconnect()
WakeInvalidUri(b) ==
  /\ lis[b].pc = "sleep5" /\ lis[b].running
  /\ lis' = [lis EXCEPT ![b].pc = "sleeping", ![b].waited = @ + InvalidUriSleep,
                        ![b].on_disconnects = @ + 1, ![b].last_cb = "on_disconnect"]
  /\ UNCHANGED <<accesses, dispvars, recording, lastIssued, wvars, cfgvars, mainvars, statevars, now, loopvars, msgvars, nCmds>>

\* ws.recv() raised (ConnectionClosed or other): break, on_disconnect()
Disconnect(b) ==
  /\ lis[b].pc = "connected" /\ lis[b].running
  /\ lis' = [lis EXCEPT ![b].pc = "sleeping", ![b].waited = 0,
                        ![b].on_disconnects = @ + 1, ![b].last_cb = "on_disconnect"]
  /\ UNCHANGED <<accesses, dispvars, recording, lastIssued, wvars, cfgvars, mainvars, statevars, now, loopvars, msgvars, nCmds>>

\* await asyncio.sleep(backoff) is over; backoff = min(max_backoff, backoff * 2)
WakeBackoff(b) ==
  /\ lis[b].pc = "sleeping" /\ lis[b].running
  /\ lis' = [lis EXCEPT ![b].pc = "connecting",
                        ![b].slept = lis[b].backoff,
                        ![b].waited = @ + lis[b].backoff,
                        ![b].sinceReset = @ + 1,
                        ![b].backoff = NextBackoff(lis[b].backoff)]
  /\ UNCHANGED <<accesses, dispvars, recording, lastIssued, wvars, cfgvars, mainvars, statevars, now, loopvars, msgvars, nCmds>>

\* msg = await ws.recv(); await self._process_message(msg), which calls
\* on_new_lyrics((text, is_blank)): update_lyrics(txt), then
\* run_coroutine_threadsafe(handle_action(...), loop).  Before `loop` is assigned
\* that last call raises NameError, which _process_message swallows.
RecvMessage(b, m) ==
  /\ lis[b].pc = "connected"
  /\ ~on_new_lyrics_blocked(tasks, b)
  /\ nMsgs + nCmds < lim.ops
  /\ nMsgs' = nMsgs + 1
  /\ lastMsg' = m
  /\ lis' = [lis EXCEPT ![b].last_slide = ClassifyText(m)]
  /\ IF RaisesEvent(m)
       THEN /\ lastEvent' = [b |-> b, text |-> ClassifyText(m), blank |-> ClassifyBlank(m)]
            /\ nEvents' = nEvents + 1
            /\ lyrics' = update_lyrics_value(ClassifyText(m))
            /\ lastStored' = ClassifyText(m)
            /\ last_lyrics_ts' = update_lyrics_ts(now)
            /\ accesses' = accesses \cup {"update_lyrics"}
            /\ IF LoopDefined
                 THEN /\ tasks' = Append(tasks,
                           Task(EventAction(ClassifyBlank(m)), b, nMsgs + 1, <<>>))
                      /\ ready' = Enqueue(ready, Entry("start", Len(tasks) + 1, 0, 0))
                 ELSE UNCHANGED <<tasks, ready>>
       ELSE UNCHANGED <<lastEvent, nEvents, lyrics, lastStored, last_lyrics_ts,
                        tasks, ready, accesses>>
  /\ UNCHANGED <<dispvars, recording, lastIssued, wvars, cfgvars, mainvars, now, calls, session, nCmds>>

(***************************************************************************)
(* The main thread (main.py, __main__)                                     *)
(***************************************************************************)
\* loop = asyncio.new_event_loop(); loop.run_until_complete(ensure_always_on_overlay())
MainCreateLoop ==
  /\ phase = "boot"
  /\ \A b \in Bundles : lis[b].pc # "new"
  /\ phase' = "startup"
  /\ loopRunning' = TRUE
  /\ tasks' = Append(tasks, Task("ensure", 0, 0, <<>>))
  /\ ready' = Append(ready, Entry("start", Len(tasks) + 1, 0, 0))
  /\ UNCHANGED <<accesses, dispvars, recording, lastIssued, wvars, cfgvars, shutdown_event, statevars, now, lis, calls, session,
                 msgvars, nCmds>>

\* the GUI's action_callback: run_coroutine_threadsafe(handle_action(a), loop),
\* possible once root.mainloop() runs
GuiDispatch(action, text) ==
  /\ phase = "mainloop"
  /\ nMsgs + nCmds < lim.ops
  /\ nCmds' = nCmds + 1
  /\ tasks' = Append(tasks, Task(action, 0, 0, text))
  /\ ready' = Enqueue(ready, Entry("start", Len(tasks) + 1, 0, 0))
  /\ UNCHANGED <<accesses, dispvars, recording, lastIssued, wvars, cfgvars, mainvars, statevars, now, lis, calls, session, msgvars>>

\* on_closing: shutdown_event.set(), stop() on every listener, then
\* loop.run_until_complete(_close_all())
MainClose ==
  /\ phase = "mainloop"
  /\ phase' = "closing"
  /\ shutdown_event' = TRUE
  /\ loopRunning' = TRUE
  /\ lis' = [b \in Bundles |-> after_stop(stop(lis[b]))]
  /\ ready' = Append(ready, Entry("closeAll", 0, 0, 0))
  /\ UNCHANGED <<accesses, dispvars, recording, lastIssued, wvars, cfgvars, statevars, now, tasks, calls, session, msgvars, nCmds>>

\* the sleeping watchers whose asyncio.sleep is over at time `at`
DueTimers(at) == {t \in 1..Len(tasks) : tasks[t].pc = "sleep" /\ tasks[t].wake <= at}

RECURSIVE WakeAll(_, _)
WakeAll(q, due) ==
  IF due = {} THEN q
  ELSE LET t == CHOOSE x \in due : \A y \in due : x <= y
       IN WakeAll(Append(q, Entry("start", t, 0, 0)), due \ {t})

\* one unit of time passes.  A running loop is fast against the clock: it has
\* emptied its ready queue before, and it wakes the sleepers that are due.
Tick ==
  /\ phase # "closed"
  /\ now < MaxTime
  /\ ~(loopRunning /\ ready # <<>>)
  /\ now' = now + 1
  /\ IF loopRunning /\ DueTimers(now + 1) # {}
       THEN /\ ready' = WakeAll(ready, DueTimers(now + 1))
            /\ tasks' = [t \in 1..Len(tasks) |->
                           IF t \in DueTimers(now + 1)
                             THEN [tasks[t] EXCEPT !.pc = "new"] ELSE tasks[t]]
       ELSE UNCHANGED <<ready, tasks>>
  /\ UNCHANGED <<accesses, dispvars, recording, lastIssued, wvars, cfgvars, mainvars, statevars, lis, calls, session,
                 msgvars, nCmds>>

(***************************************************************************)
(* VmixController and the fan-out (vmix_openlp_handler.py, main.py)        *)
(***************************************************************************)
\* bug variant: a failed request raises into the caller
vmix_call_result_raises(outcome) == IF outcome = "failed" THEN "raised" ELSE "returned"

\* what send_title_text / trigger_overlay / _simple_function hand back to the
\* awaiting caller when the HTTP request ended `outcome`: every Exception is
\* swallowed
vmix_call_result(outcome) == "returned"

\* asyncio.gather(*tasks, return_exceptions=True): never raises into handle_action
gather_raises(anyRaised) == FALSE

\* the action a task's wave belongs to: the idle watcher awaits
\* handle_action("clear_lyrics") inline
WaveAction(tk) == IF tk.action = "idle" THEN "clear_lyrics" ELSE tk.action

\* bug variant: the text goes out upper-cased but not wrapped
WavePayloadUnwrapped(action, text) ==
  IF action = "show_lyrics" THEN Upper(text) ELSE <<>>

\* payload = soft_wrap((text or "").upper(), max_chars) for Show, "" for Clear
WavePayload(action, text) ==
  IF action = "show_lyrics"
    THEN soft_wrap(Upper(text), settings.max_chars_per_line)
    ELSE <<>>

\* bug variant: Show requests In although the overlay is to stay on
OverlayForShowIn(action) ==
  CASE action \in {"show_lyrics", "toggle_overlay"} ->
         IF settings.auto_overlay_on_send \/ action = "toggle_overlay" THEN "In" ELSE "None"
    [] action = "clear_lyrics" ->
         IF settings.overlay_always_on THEN "None"
         ELSE IF settings.auto_overlay_out_on_clear THEN "Out" ELSE "None"
    [] action = "ensure" ->
         IF settings.overlay_always_on THEN "On" ELSE "None"
    [] OTHER -> "None"

\* bug variant: ToggleOverlay takes the overlay out when it is to stay on
OverlayForToggleOut(action) ==
  CASE action = "show_lyrics" ->
         IF settings.overlay_always_on THEN "On"
         ELSE IF settings.auto_overlay_on_send THEN "In" ELSE "None"
    [] action = "clear_lyrics" ->
         IF settings.overlay_always_on THEN "None"
         ELSE IF settings.auto_overlay_out_on_clear THEN "Out" ELSE "None"
    [] action = "ensure" ->
         IF settings.overlay_always_on THEN "On" ELSE "None"
    [] action = "toggle_overlay" -> IF settings.overlay_always_on THEN "Out" ELSE "In"
    [] OTHER -> "None"

\* bug variant: Clear requests Out although the overlay is to stay on
OverlayForClearOut(action) ==
  CASE action = "show_lyrics" ->
         IF settings.overlay_always_on THEN "On"
         ELSE IF settings.auto_overlay_on_send THEN "In" ELSE "None"
    [] action = "clear_lyrics" ->
         IF settings.auto_overlay_out_on_clear THEN "Out" ELSE "None"
    [] action = "ensure" ->
         IF settings.overlay_always_on THEN "On" ELSE "None"
    [] action = "toggle_overlay" -> "In"
    [] OTHER -> "None"

\* the overlay command that follows the wave ("None": no command)
OverlayFor(action) ==
  CASE action = "show_lyrics" ->
         IF settings.overlay_always_on THEN "On"
         ELSE IF settings.auto_overlay_on_send THEN "In" ELSE "None"
    [] action = "clear_lyrics" ->
         IF settings.overlay_always_on THEN "None"
         ELSE IF settings.auto_overlay_out_on_clear THEN "Out" ELSE "None"
    [] action = "ensure" ->
         IF settings.overlay_always_on THEN "On" ELSE "None"
    [] action = "toggle_overlay" -> "In"
    [] OTHER -> "None"

\* bug variant: the overlay number is used as given
OverlayNumberUnclamped(ch) == ch

\* trigger_overlay: n = max(1, min(4, int(overlay_number)))
OverlayNumber(ch) == IF ch < 1 THEN 1 ELSE IF ch > 4 THEN 4 ELSE ch

\* trigger_overlay: action = action if action in {"In", "Out", "On", "Off"} else "In"
OverlayActions == {"In", "Out", "On", "Off"}
overlay_function_action(action) == IF action \in OverlayActions THEN action ELSE "In"

\* the vMix function of a recording command
RecordingFunction(action) ==
  IF action = "start_recording" THEN "StartRecording" ELSE "StopRecording"

\* bug variant: the flag follows the outcome of the request
recording_if_ok(action, outcome, old) ==
  IF outcome = "ok" THEN action = "start_recording" ELSE old

\* app_state["recording"] = True / False, set after the request whatever came of it
recording_after(action, outcome, old) == action = "start_recording"

\* a call: for SetText m is the mapping, for Overlay the overlay number n of
\* OverlayInput{n}{action}
Call(t, b, m, fn, value, st) ==
  [t |-> t, b |-> b, m |-> m, fn |-> fn, value |-> value, st |-> st,
   res |-> IF st = "inflight" THEN "pending" ELSE vmix_call_result(st)]

\* the failures still allowed in this run
FailuresLeft == MaxFailures - Cardinality({i \in 1..Len(calls) : calls[i].st = "failed"})

\* a coroutine that has returned: nothing of it is kept
DoneTask == [Task("done", 0, 0, <<>>) EXCEPT !.pc = "done"]

\* the calls of other coroutines than task t: those of t are dropped when the
\* awaiting coroutine has taken their results
Purge(cl, t) == SelectSeq(cl, LAMBDA c : c.t # t)

\* the coroutine of task t has reached its end (or its sleep, for the watcher)
Complete(t, tk, rq) ==
  CASE tk[t].action = "idle" ->
         /\ tasks' = [tk EXCEPT ![t].pc = "sleep", ![t].wake = now + 1, ![t].cur_ts = 0]
         /\ last_lyrics_ts' = 0
         /\ ready' = rq
    [] tk[t].action = "ensure" ->
         /\ tasks' = [tk EXCEPT ![t] = DoneTask]
         /\ ready' = Append(rq, Entry("stop", 0, 0, 0))
         /\ UNCHANGED last_lyrics_ts
    [] OTHER ->
         /\ tasks' = [tk EXCEPT ![t] = DoneTask]
         /\ ready' = rq
         /\ UNCHANGED last_lyrics_ts

\* after the fan-out wave: the overlay choreography of handle_action, through
\* overlay_action on connections[0]
AfterWave(t, tk, rq) ==
  LET ov == OverlayFor(WaveAction(tk[t])) IN
  IF ov = "None"
    THEN /\ Complete(t, tk, rq)
         /\ calls' = Purge(calls, t)
         /\ UNCHANGED session
    ELSE /\ calls' = Append(Purge(calls, t),
                            Call(t, 1, OverlayNumber(settings.overlay_channel), "Overlay",
                                 overlay_function_action(ov), "inflight"))
         /\ session' = [session EXCEPT ![1] = "open"]
         /\ tasks' = [tk EXCEPT ![t].pc = "overlay"]
         /\ ready' = rq
         /\ UNCHANGED last_lyrics_ts

\* bug variant: the calls are awaited one after the other and the first failure
\* ends the wave
RECURSIVE FanOutChained(_, _)
FanOutChained(targets, failing) ==
  IF targets = <<>> THEN <<>>
  ELSE IF Head(targets) \in failing THEN <<Head(targets)>>
  ELSE <<Head(targets)>> \o FanOutChained(Tail(targets), failing)

\* the send_title_text coroutines that get to run, given the targets of the
\* wave and those whose request fails at once: gather runs each as a task of
\* its own, so all of them
FanOut(targets, failing) == targets

\* the fan-out: one send_title_text coroutine per mapping per bundle, handed to
\* asyncio.gather, which schedules them as tasks, one after the other
StartWave(t, action, rq) ==
  LET text == lyrics
      payload == WavePayload(action, text)
      tk == [tasks EXCEPT ![t].arg = text, ![t].payload = payload, ![t].pc = "gather",
                          ![t].pending = Len(Targets),
                          \* idle_watcher's local: cur_ts = last_lyrics_ts
                          ![t].cur_ts = IF tasks[t].action = "idle" THEN last_lyrics_ts ELSE 0]
  IN IF Targets = <<>>
       THEN AfterWave(t, tk, rq)
       ELSE /\ tasks' = tk
            /\ ready' = Append(rq, Entry("sends", t, 0, 0))
            /\ UNCHANGED <<calls, session, last_lyrics_ts>>

Head1 == Head(ready)

\* bug variant: Clear blanks the stored text as well
handle_action_lyrics_blanked(action, text) ==
  IF action = "clear_lyrics" THEN <<>> ELSE text

\* app_state["lyrics"] after the show_lyrics / clear_lyrics branch of
\* handle_action: neither assigns it
handle_action_lyrics(action, text) == text

\* first step of a handle_action coroutine (or of ensure_always_on_overlay)
RunStart ==
  /\ loopRunning /\ ready # <<>>
  /\ Head1.k = "start"
  /\ tasks[Head1.t].action \in {"show_lyrics", "clear_lyrics", "set_lyrics_text", "ensure",
                                "toggle_overlay"}
  /\ LET t == Head1.t
         a == tasks[t].action
     IN CASE a = "set_lyrics_text" ->
               /\ lyrics' = update_lyrics_value(tasks[t].arg)
               /\ lastStored' = tasks[t].arg
               /\ last_lyrics_ts' = update_lyrics_ts(now)
               /\ accesses' = accesses \cup {"update_lyrics"}
               /\ tasks' = [tasks EXCEPT ![t] = DoneTask]
               /\ ready' = Tail(ready)
               /\ UNCHANGED <<calls, session>>
          [] a \in {"ensure", "toggle_overlay"} ->
               /\ AfterWave(t, tasks, Tail(ready))
               /\ UNCHANGED <<lyrics, lastStored, accesses>>
          [] OTHER ->
               /\ StartWave(t, a, Tail(ready))
               /\ accesses' = accesses \cup
                    (IF a = "show_lyrics" THEN {"handle_action:125"} ELSE {})
               /\ lyrics' = handle_action_lyrics(a, lyrics)
               /\ UNCHANGED lastStored
  /\ UNCHANGED <<dispvars, recording, lastIssued, wvars, cfgvars, mainvars, now, lis, msgvars, nCmds>>

\* handle_action("start_recording" / "stop_recording"), first step: the request
\* goes to connections[0].vmix and the coroutine waits for it
RunRecording ==
  /\ loopRunning /\ ready # <<>>
  /\ Head1.k = "start"
  /\ tasks[Head1.t].action \in {"start_recording", "stop_recording"}
  /\ LET t == Head1.t IN
       /\ calls' = Append(calls, Call(t, 1, 0, "Function",
                                      RecordingFunction(tasks[t].action), "inflight"))
       /\ session' = [session EXCEPT ![1] = "open"]
       /\ tasks' = [tasks EXCEPT ![t].pc = "recording"]
       /\ ready' = Tail(ready)
  /\ UNCHANGED <<accesses, dispvars, recording, lastIssued, wvars, cfgvars, mainvars, statevars, now, lis, msgvars,
                 nCmds>>

\* idle_watcher: one pass of its while loop, up to its next suspension
RunIdle ==
  /\ loopRunning /\ ready # <<>>
  /\ Head1.k = "start"
  /\ tasks[Head1.t].action = "idle"
  /\ LET t == Head1.t
         idle == settings.auto_clear_idle_sec
         cur_ts == last_lyrics_ts
     IN IF shutdown_event
          THEN /\ tasks' = [tasks EXCEPT ![t] = DoneTask]
               /\ ready' = Tail(ready)
               /\ UNCHANGED <<calls, session, last_lyrics_ts, accesses, lyrics>>
          ELSE IF idle > 0 /\ cur_ts # 0 /\ now - cur_ts >= idle
            THEN /\ StartWave(t, "clear_lyrics", Tail(ready))
                 /\ lyrics' = handle_action_lyrics("clear_lyrics", lyrics)
                 /\ accesses' = accesses \cup {"idle_watcher:210"} \cup
                      (IF tasks'[t].pc = "sleep" THEN {"idle_watcher:213"} ELSE {})
            ELSE /\ tasks' = [tasks EXCEPT ![t].pc = "sleep", ![t].wake = now + 1]
                 /\ ready' = Tail(ready)
                 /\ accesses' = accesses \cup {"idle_watcher:210"}
                 /\ UNCHANGED <<calls, session, last_lyrics_ts, lyrics>>
  /\ UNCHANGED <<dispvars, recording, lastIssued, wvars, cfgvars, mainvars, lastStored, now, lis, msgvars, nCmds>>

\* the first steps of the send_title_text tasks of one wave, which sit next to
\* each other in the ready queue: _get_session(), session.get(...).  The
\* requests of the targets in `failing` fail before their first suspension.
RunSends ==
  /\ loopRunning /\ ready # <<>>
  /\ Head1.k = "sends"
  /\ LET t == Head1.t IN
     \E failing \in SUBSET (1..Len(Targets)) :
       /\ Cardinality(failing) <= FailuresLeft
       /\ LET run == FanOut(Targets, {Targets[i] : i \in failing})
              new == [i \in 1..Len(run) |->
                        Call(t, run[i].b, run[i].m, "SetText", tasks[t].payload,
                             IF run[i] \in {Targets[j] : j \in failing}
                               THEN "failed" ELSE "inflight")]
              left == Cardinality({i \in 1..Len(new) : new[i].st = "inflight"})
          IN /\ calls' = calls \o new
             /\ session' = [b \in Bundles |->
                              IF \E i \in 1..Len(run) : run[i].b = b
                                THEN "open" ELSE session[b]]
             /\ tasks' = [tasks EXCEPT ![t].pending = left]
             /\ lastIssued' = [lastIssued EXCEPT ![tasks[t].src] = t]
             /\ ready' = IF left = 0
                           THEN Append(Tail(ready), Entry("resume", t, 0, 0))
                           ELSE Tail(ready)
  /\ UNCHANGED <<accesses, dispvars, recording, wvars, cfgvars, mainvars, statevars, now, lis, msgvars,
                 nCmds>>

\* the calls of task t that are still in flight
InFlight(t) == {i \in 1..Len(calls) : calls[i].t = t /\ calls[i].st = "inflight"}

\* the HTTP requests of one wave end (response, error or timeout) while the
\* loop runs, those in `failing` with an error; gather wakes handle_action
WaveDone(t, failing) ==
  /\ loopRunning
  /\ tasks[t].pc = "gather"
  /\ InFlight(t) # {}
  /\ failing \subseteq InFlight(t)
  /\ Cardinality(failing) <= FailuresLeft
  /\ calls' = [i \in 1..Len(calls) |->
                IF i \in InFlight(t)
                  THEN [calls[i] EXCEPT
                          !.st = IF i \in failing THEN "failed" ELSE "ok",
                          !.res = vmix_call_result(IF i \in failing THEN "failed" ELSE "ok")]
                  ELSE calls[i]]
  /\ tasks' = [tasks EXCEPT ![t].pending = 0]
  /\ ready' = Append(ready, Entry("resume", t, 0, 0))
  /\ UNCHANGED <<accesses, dispvars, recording, lastIssued, wvars, cfgvars, mainvars, statevars, now, lis, session, msgvars, nCmds>>

\* the overlay request of task t ends; overlay_action returns to handle_action
OverlayDone(t, outcome) ==
  /\ loopRunning
  /\ tasks[t].pc \in {"overlay", "recording"}
  /\ InFlight(t) # {}
  /\ outcome = "failed" => FailuresLeft > 0
  /\ calls' = [i \in 1..Len(calls) |->
                IF i \in InFlight(t)
                  THEN [calls[i] EXCEPT !.st = outcome, !.res = vmix_call_result(outcome)]
                  ELSE calls[i]]
  /\ ready' = Append(ready, Entry("resume", t, 0, 0))
  /\ UNCHANGED <<accesses, dispvars, recording, lastIssued, wvars, cfgvars, mainvars, statevars, now, lis, session, tasks, msgvars,
                 nCmds>>

\* a coroutine resumes after its await (gather, or the overlay request)
RunResume ==
  /\ loopRunning /\ ready # <<>>
  /\ Head1.k = "resume"
  /\ LET t == Head1.t IN
     IF tasks[t].pc = "gather"
       THEN IF gather_raises(\E i \in 1..Len(calls) :
                               calls[i].t = t /\ calls[i].res = "raised")
              THEN /\ tasks' = [tasks EXCEPT ![t].pc = "raised"]
                   /\ ready' = Tail(ready)
                   /\ UNCHANGED <<calls, session, last_lyrics_ts>>
              ELSE AfterWave(t, tasks, Tail(ready))
       ELSE IF tasks[t].pc = "recording"
                 /\ \E i \in 1..Len(calls) : calls[i].t = t /\ calls[i].res = "raised"
         THEN \* start_recording() / stop_recording() is awaited with no try around it
              /\ tasks' = [tasks EXCEPT ![t].pc = "raised"]
              /\ ready' = Tail(ready)
              /\ UNCHANGED <<calls, session, last_lyrics_ts>>
         ELSE /\ Complete(t, tasks, Tail(ready))
              /\ calls' = IF tasks[t].pc = "recording" THEN calls ELSE Purge(calls, t)
              /\ UNCHANGED session
  /\ recording' =
       IF tasks[Head1.t].pc = "recording" /\ tasks'[Head1.t].pc # "raised"
         THEN recording_after(tasks[Head1.t].action,
                              IF \E i \in 1..Len(calls) :
                                   calls[i].t = Head1.t /\ calls[i].st = "failed"
                                THEN "failed" ELSE "ok",
                              recording)
         ELSE recording
  /\ accesses' = accesses \cup
       (IF tasks[Head1.t].action = "idle" /\ tasks'[Head1.t].pc = "sleep"
          THEN {"idle_watcher:213"} ELSE {})
  /\ UNCHANGED <<dispvars, lastIssued, wvars, cfgvars, mainvars, lyrics, lastStored, now, lis, msgvars,
                 nCmds>>

\* _get_session(): the session at hand, a new one when there is none
get_session(s) == "open"

\* bug variant: close() awaits self._session.close() without looking at it
vmix_close_result_unguarded(s) == IF s = "none" THEN "raised" ELSE "returned"

\* close(): `if self._session and not self._session.closed` guards the await
vmix_close_result(s) == "returned"

\* close(): the session is closed if there is one, then self._session = None
vmix_close(s) == "none"

\* _close_all(): close() on every bundle's VmixController
RunCloseAll ==
  /\ loopRunning /\ ready # <<>>
  /\ Head1.k = "closeAll"
  /\ session' = [b \in Bundles |-> vmix_close(session[b])]
  /\ ready' = Append(Tail(ready), Entry("stop", 0, 0, 0))
  /\ UNCHANGED <<accesses, dispvars, recording, lastIssued, wvars, cfgvars, mainvars, statevars, now, lis, tasks, calls, msgvars,
                 nCmds>>

\* run_until_complete returns.  At startup the main thread goes on to schedule
\* the watchers and enters root.mainloop(); at shutdown it destroys the window.
RunStop ==
  /\ loopRunning /\ ready # <<>>
  /\ Head1.k = "stop"
  /\ loopRunning' = FALSE
  /\ IF phase = "startup"
       THEN /\ phase' = "mainloop"
            /\ tasks' = Append(tasks, Task("idle", 0, 0, <<>>))
            /\ ready' = Append(Tail(ready), Entry("start", Len(tasks) + 1, 0, 0))
            /\ UNCHANGED calls
       ELSE \* root.destroy(), loop.close(): what is still queued or suspended is dropped
            /\ phase' = "closed"
            /\ ready' = <<>>
            /\ tasks' = <<>>
            /\ calls' = <<>>
  /\ UNCHANGED <<accesses, dispvars, recording, lastIssued, wvars, cfgvars, shutdown_event, statevars, now, lis, session,
                 msgvars, nCmds>>

(***************************************************************************)
(* The watchers (main.py) and get_status (vmix_openlp_handler.py)          *)
(***************************************************************************)
\* the accesses to app_state["lyrics"] and last_lyrics_ts that sit inside a
\* `with shared_lock:` block
LockHeld(site) == site \in {"update_lyrics", "handle_action:125"}

\* the texts of <recording> and <overlay1> in a status document (<<>>: no such
\* element), as pairs
StatusTexts ==
  {<< <<"T", "r", "u", "e">>, <<" ", "T", "r", "u", "e">> >>,
   << <<"F", "a", "l", "s", "e">>, <<>> >>}

\* what a GET of the API may come to: a transport error, a status other than
\* 200, a body that is not XML, or a status document
StatusAnswers ==
  {[kind |-> k, recording |-> <<>>, overlay1 |-> <<>>] :
     k \in {"error", "not200", "unparseable"}}
  \cup {[kind |-> "document", recording |-> p[1], overlay1 |-> p[2]] : p \in StatusTexts}

\* _get_xml returns None
get_xml_is_none(answer) == answer.kind # "document"

\* the dict {}
EmptyDict == [k \in {} |-> <<>>]

\* get_status: {} when _get_xml returned None, else the stripped texts
get_status(answer) ==
  IF get_xml_is_none(answer) THEN EmptyDict
  ELSE [recording |-> Strip(answer.recording), overlay1 |-> Strip(answer.overlay1)]

\* st.get(key, "")
DictGet(st, key) == IF key \in DOMAIN st THEN st[key] ELSE <<>>

\* bug variant: an empty status leaves the flag as it was
poll_flag_keeps(st, key, old) ==
  IF DOMAIN st = {} THEN old ELSE Lower(DictGet(st, key)) = <<"t", "r", "u", "e">>

\* poll_status: str(st.get(key, "")).lower() == "true"
poll_flag(st, key, old) == Lower(DictGet(st, key)) = <<"t", "r", "u", "e">>

\* the watchers are scheduled when start-up is over and step while the loop is
\* run and shutdown_event is not set
WatchersStep == loopRunning /\ phase = "mainloop" /\ ~shutdown_event

\* poll_status, one pass: the status of connections[0].vmix, then the two flags
PollStatus(answer) ==
  /\ WatchersStep
  /\ LET st == get_status(answer) IN
       /\ recording' = poll_flag(st, "recording", recording)
       /\ overlay_on' = poll_flag(st, "overlay1", overlay_on)
  /\ lastPoll' = answer
  /\ session' = [session EXCEPT ![1] = "open"]
  /\ UNCHANGED <<accesses, connections_ok, nTicks, lastIssued, wvars, cfgvars, mainvars, statevars,
                 now, lis, ready, tasks, calls, msgvars, nCmds>>

\* health_watcher's test of one listener: the flag and the thread
openlp_ok(l) == l.running /\ l.pc \notin {"new", "exited"}

\* health_watcher, one pass: the status of connections[0].vmix for the LED, then
\* app_state["connections_ok"] = openlp_ok_count
HealthTick ==
  /\ WatchersStep
  /\ nTicks < MaxHealthTicks
  /\ nTicks' = nTicks + 1
  /\ connections_ok' = Cardinality({b \in Bundles : openlp_ok(lis[b])})
  /\ session' = [session EXCEPT ![1] = "open"]
  /\ UNCHANGED <<accesses, overlay_on, lastPoll, recording, lastIssued, wvars, cfgvars, mainvars,
                 statevars, now, lis, ready, tasks, calls, msgvars, nCmds>>

(***************************************************************************)
(* Specifications                                                          *)
(***************************************************************************)
RECURSIVE StringsOfLen(_)
StringsOfLen(n) ==
  IF n = 0 THEN {<<>>}
  ELSE {Append(s, c) : s \in StringsOfLen(n - 1), c \in Chars}

Strings == UNION {StringsOfLen(n) : n \in 0..MaxTextLen}

\* the texts a GUI command may carry
GuiTexts == {<<"B", " ", "a">>}

\* _send_test_lyrics: the typed text, stripped and upper-cased, when not empty
gui_test_text(typed) == Upper(Strip(typed))

WrapIdle ==
  /\ wText = <<>>
  /\ wN = 0
  /\ wOut = <<>>
  /\ wDone = TRUE

\* the module globals and the controllers as constructed
GlobalsAtConstruction ==
  /\ shutdown_event = FALSE
  /\ lyrics = <<>>
  /\ last_lyrics_ts = 0
  /\ lastStored = <<>>
  /\ recording = FALSE
  /\ now = 1
  /\ session = [b \in Bundles |-> "none"]
  /\ calls = <<>>
  /\ accesses = {}
  /\ connections_ok = 0
  /\ overlay_on = FALSE
  /\ lastPoll = NoPoll
  /\ nTicks = 0
  /\ nMsgs = 0
  /\ nCmds = 0
  /\ lastMsg = NoMsg
  /\ lastEvent = NoEvent
  /\ nEvents = 0
  /\ lastIssued = [b \in 0..Len(conns) |-> 0]

\* the main thread has not created the bridge loop yet
BridgeAtConstruction ==
  /\ phase = "boot"
  /\ loopRunning = FALSE
  /\ ready = <<>>
  /\ tasks = <<>>
  /\ GlobalsAtConstruction

\* a listener whose start() has been called: its thread is in _listen_ws
StartedListener(ok) ==
  start(NewListener(ok))

\* the bridge: the process when the main thread has built the ConnBundles and
\* started every listener (main.py, line 339); each listener connects once
Init ==
  /\ WrapIdle
  /\ lim = [attempts |-> 1, ops |-> MaxOps, starts |-> 1]
  /\ conns \in ConnConfigs
  /\ settings \in SettingsSet
  /\ lis = [b \in Bundles |-> StartedListener(TRUE)]
  /\ BridgeAtConstruction

Next ==
  \/ \E b \in Bundles : ConnectOk(b)
  \/ \E b \in Bundles, m \in BridgeMessages : RecvMessage(b, m)
  \/ MainCreateLoop
  \/ \E a \in {"show_lyrics", "clear_lyrics"} : GuiDispatch(a, <<>>)
  \/ \E x \in GuiTexts : GuiDispatch("set_lyrics_text", gui_test_text(x))
  \/ MainClose
  \/ RunStart
  \/ RunIdle
  \/ RunSends
  \/ \E t \in 1..Len(tasks), f \in SUBSET (1..Len(calls)) : WaveDone(t, f)
  \/ \E t \in 1..Len(tasks), o \in {"ok", "failed"} : OverlayDone(t, o)
  \/ RunResume
  \/ RunCloseAll
  \/ RunStop

Spec == Init /\ [][Next]_vars

\* the bridge with the clock: one bundle, one frame or command
InitIdle ==
  /\ WrapIdle
  /\ lim = [attempts |-> 1, ops |-> MaxIdleOps, starts |-> 1]
  /\ conns \in {<<1>>}
  /\ settings \in SettingsSet
  /\ lis = [b \in Bundles |-> StartedListener(TRUE)]
  /\ BridgeAtConstruction

NextIdle == Next \/ Tick

SpecIdle == InitIdle /\ [][NextIdle]_vars

\* one listener on its own, any frame, a valid or an invalid ws_url
\* the commands of the GUI and the HTTP API, without source messages
InitCmd ==
  /\ WrapIdle
  /\ lim = [attempts |-> 1, ops |-> MaxCmdOps, starts |-> 1]
  /\ conns \in {<<1>>, <<1, 1>>}
  /\ settings \in SettingsSet
  /\ lis = [b \in Bundles |-> StartedListener(TRUE)]
  /\ BridgeAtConstruction

NextCmd ==
  \/ MainCreateLoop
  \/ \E a \in {"show_lyrics", "clear_lyrics", "toggle_overlay", "start_recording",
                "stop_recording"} : GuiDispatch(a, <<>>)
  \/ \E x \in GuiTexts : GuiDispatch("set_lyrics_text", gui_test_text(x))
  \/ MainClose
  \/ RunStart
  \/ RunRecording
  \/ RunIdle
  \/ RunSends
  \/ \E t \in 1..Len(tasks), f \in SUBSET (1..Len(calls)) : WaveDone(t, f)
  \/ \E t \in 1..Len(tasks), o \in {"ok", "failed"} : OverlayDone(t, o)
  \/ RunResume
  \/ RunCloseAll
  \/ RunStop

SpecCmd == InitCmd /\ [][NextCmd]_vars

InitListener ==
  /\ WrapIdle
  /\ lim = [attempts |-> MaxBackoffAttempts, ops |-> MaxListenerMsgs, starts |-> 1]
  /\ conns = <<1>>
  /\ settings \in SettingsSet
  /\ \E ok \in BOOLEAN : lis = [b \in Bundles |-> NewListener(ok)]
  /\ BridgeAtConstruction

NextListener ==
  \/ \E b \in Bundles : StartListener(b)
  \/ \E b \in Bundles : ConnectOk(b)
  \/ \E b \in Bundles : ConnectFail(b)
  \/ \E b \in Bundles : WakeInvalidUri(b)
  \/ \E b \in Bundles : Disconnect(b)
  \/ \E b \in Bundles : WakeBackoff(b)
  \/ \E b \in Bundles, m \in AllMessages : RecvMessage(b, m)

SpecListener == InitListener /\ [][NextListener]_vars

\* soft_wrap on its own: every text up to MaxTextLen, every width up to MaxWidth
\* the life cycle of one OpenLPController: start() and stop() called at any
\* moment, no frames
InitLifecycle ==
  /\ WrapIdle
  /\ lim = [attempts |-> MaxLifeAttempts, ops |-> 0, starts |-> MaxStarts]
  /\ conns = <<1>>
  /\ settings \in SettingsSet
  /\ \E ok \in BOOLEAN : lis = [b \in Bundles |-> NewListener(ok)]
  /\ BridgeAtConstruction

NextLifecycle ==
  \/ \E b \in Bundles : StartListener(b)
  \/ \E b \in Bundles : StopListener(b)
  \/ \E b \in Bundles : ListenerExit(b)
  \/ \E b \in Bundles : ConnectOk(b)
  \/ \E b \in Bundles : ConnectFail(b)
  \/ \E b \in Bundles : WakeInvalidUri(b)
  \/ \E b \in Bundles : Disconnect(b)
  \/ \E b \in Bundles : WakeBackoff(b)

SpecLifecycle == InitLifecycle /\ [][NextLifecycle]_vars

\* the same, with the listener's loop running its timers: a sleep of
\* _listen_ws that is due is woken
SpecLifecycleLive ==
  SpecLifecycle /\ WF_vars(WakeBackoff(1)) /\ WF_vars(WakeInvalidUri(1))

\* start() and stop() of one OpenLPController called at any moment, its threads
\* taken one by one
InitThreads ==
  /\ WrapIdle
  /\ lim = [attempts |-> 0, ops |-> 0, starts |-> MaxThreadStarts]
  /\ conns = <<1>>
  /\ settings = Setting(FALSE, TRUE, TRUE, TRUE, 0, 1)
  /\ lis = [b \in Bundles |-> NewListener(TRUE)]
  /\ BridgeAtConstruction

NextThreads ==
  \/ \E b \in Bundles : CallStart(b)
  \/ \E b \in Bundles : CallStop(b)
  \/ \E b \in Bundles, i \in 1..MaxThreadStarts : ThreadAssignLoop(b, i)
  \/ \E b \in Bundles, i \in 1..MaxThreadStarts : ThreadEnters(b, i)
  \/ \E b \in Bundles, i \in 1..MaxThreadStarts : ThreadStopped(b, i)
  \/ \E b \in Bundles, i \in 1..MaxThreadStarts : ThreadSeesFlag(b, i)

SpecThreads == InitThreads /\ [][NextThreads]_vars

\* the three watchers stepped by a loop that is being run, as lines 360-362
\* schedule them, beside one listener.  (In the process as wired the loop is
\* run again only by on_closing, where the watchers find shutdown_event set:
\* see MainClose and RunIdle.)
InitWatchers ==
  /\ WrapIdle
  /\ lim = [attempts |-> MaxWatchAttempts, ops |-> MaxWatchOps, starts |-> 1]
  /\ conns = <<1>>
  /\ settings \in SettingsSet
  /\ lis = [b \in Bundles |-> StartedListener(TRUE)]
  /\ phase = "mainloop"
  /\ loopRunning = TRUE
  /\ tasks = <<Task("idle", 0, 0, <<>>)>>
  /\ ready = <<Entry("start", 1, 0, 0)>>
  /\ GlobalsAtConstruction

NextWatchers ==
  \/ \E b \in Bundles : ConnectOk(b)
  \/ \E b \in Bundles : ConnectFail(b)
  \/ \E b \in Bundles : Disconnect(b)
  \/ \E b \in Bundles : WakeBackoff(b)
  \/ \E b \in Bundles, m \in BridgeMessages : RecvMessage(b, m)
  \/ RunStart
  \/ RunIdle
  \/ RunSends
  \/ \E t \in 1..Len(tasks), f \in SUBSET (1..Len(calls)) : WaveDone(t, f)
  \/ \E t \in 1..Len(tasks), o \in {"ok", "failed"} : OverlayDone(t, o)
  \/ RunResume
  \/ Tick
  \/ HealthTick
  \/ \E a \in StatusAnswers : PollStatus(a)

SpecWatchers == InitWatchers /\ [][NextWatchers]_vars

\* the idle watcher alone beside one listener and the operator, stepped by a
\* loop that is being run: frames and commands may arrive while its Clear is
\* under way
InitIdleWatcher ==
  /\ WrapIdle
  /\ lim = [attempts |-> 1, ops |-> MaxIdleWatchOps, starts |-> 1]
  /\ conns = <<1>>
  /\ settings \in SettingsSet
  /\ lis = [b \in Bundles |-> StartedListener(TRUE)]
  /\ phase = "mainloop"
  /\ loopRunning = TRUE
  /\ tasks = <<Task("idle", 0, 0, <<>>)>>
  /\ ready = <<Entry("start", 1, 0, 0)>>
  /\ GlobalsAtConstruction

NextIdleWatcher ==
  \/ \E b \in Bundles : ConnectOk(b)
  \/ \E b \in Bundles, m \in BridgeMessages : RecvMessage(b, m)
  \/ \E a \in {"show_lyrics", "clear_lyrics"} : GuiDispatch(a, <<>>)
  \/ RunStart
  \/ RunIdle
  \/ RunSends
  \/ \E t \in 1..Len(tasks), f \in SUBSET (1..Len(calls)) : WaveDone(t, f)
  \/ \E t \in 1..Len(tasks), o \in {"ok", "failed"} : OverlayDone(t, o)
  \/ RunResume
  \/ Tick

SpecIdleWatcher == InitIdleWatcher /\ [][NextIdleWatcher]_vars

\* a request of the controller of bundle b, begun and ended: SetText, an
\* overlay function, a recording function or the status
VmixRequest(b, fn, outcome) ==
  /\ nCmds < lim.ops
  /\ nCmds' = nCmds + 1
  /\ session' = [session EXCEPT ![b] = get_session(session[b])]
  /\ calls' = Append(calls, Call(0, b, 0, fn, <<session[b], get_session(session[b])>>, outcome))
  /\ UNCHANGED <<accesses, dispvars, recording, lastIssued, wvars, cfgvars, mainvars, statevars, now, lis,
                 ready, tasks, msgvars>>

\* the arguments trigger_overlay is called with
OverlayNumberArgs == {0, 2, 5}
OverlayActionArgs == {"Out", "Off", "Toggle"}

\* trigger_overlay(overlay_number, action) of the controller of bundle b, awaited
\* to its end: the request is for OverlayInput{m}{value}
VmixTriggerOverlay(b, overlay_number, action, outcome) ==
  /\ nCmds < lim.ops
  /\ nCmds' = nCmds + 1
  /\ session' = [session EXCEPT ![b] = get_session(session[b])]
  /\ calls' = Append(calls,
                     [t |-> 0, b |-> b, m |-> OverlayNumber(overlay_number),
                      fn |-> "trigger_overlay", value |-> overlay_function_action(action),
                      st |-> outcome, res |-> vmix_call_result(outcome),
                      args |-> <<overlay_number, action>>])
  /\ UNCHANGED <<accesses, dispvars, recording, lastIssued, wvars, cfgvars, mainvars, statevars, now, lis,
                 ready, tasks, msgvars>>

\* close() of the controller of bundle b, awaited to its end
VmixClose(b) ==
  /\ nCmds < lim.ops
  /\ nCmds' = nCmds + 1
  /\ session' = [session EXCEPT ![b] = vmix_close(session[b])]
  /\ calls' = Append(calls,
                     [Call(0, b, 0, "close", <<session[b], vmix_close(session[b])>>, "ok")
                        EXCEPT !.res = vmix_close_result(session[b])])
  /\ UNCHANGED <<accesses, dispvars, recording, lastIssued, wvars, cfgvars, mainvars, statevars, now, lis,
                 ready, tasks, msgvars>>

\* the VmixControllers on their own: their coroutines awaited in any order
InitVmix ==
  /\ WrapIdle
  /\ lim = [attempts |-> 0, ops |-> MaxVmixOps, starts |-> 1]
  /\ conns \in {<<1>>, <<1, 1>>}
  /\ settings = Setting(FALSE, TRUE, TRUE, TRUE, 0, 1)
  /\ lis = [b \in Bundles |-> NewListener(TRUE)]
  /\ BridgeAtConstruction

NextVmix ==
  \/ \E b \in Bundles, fn \in {"SetText", "Overlay", "Function", "Status"},
        o \in {"ok", "failed"} : VmixRequest(b, fn, o)
  \/ \E b \in Bundles, n \in OverlayNumberArgs, a \in OverlayActionArgs,
        o \in {"ok", "failed"} : VmixTriggerOverlay(b, n, a, o)
  \/ \E b \in Bundles : VmixClose(b)

SpecVmix == InitVmix /\ [][NextVmix]_vars

InitWrap ==
  /\ wText \in Strings
  /\ wN \in 0..MaxWidth
  /\ wOut = <<>>
  /\ wDone = FALSE
  /\ lim = [attempts |-> 0, ops |-> 0, starts |-> 1]
  /\ conns = <<1>>
  /\ settings = Setting(FALSE, TRUE, TRUE, TRUE, 0, 1)
  /\ lis = [b \in Bundles |-> NewListener(TRUE)]
  /\ BridgeAtConstruction

CallSoftWrap ==
  /\ ~wDone
  /\ wOut' = soft_wrap(wText, wN)
  /\ wDone' = TRUE
  /\ UNCHANGED <<accesses, dispvars, recording, lastIssued, wText, wN, cfgvars, mainvars, statevars, now, lis, loopvars, msgvars,
                 nCmds>>

NextWrap == CallSoftWrap

SpecWrap == InitWrap /\ [][NextWrap]_vars

(***************************************************************************)
(* Properties                                                              *)
(***************************************************************************)
NewlineCount(s) == Cardinality({i \in 1..Len(s) : s[i] = "\n"})

RECURSIVE Join(_)
Join(ws) ==
  IF ws = <<>> THEN <<>>
  ELSE IF Len(ws) = 1 THEN ws[1]
  ELSE ws[1] \o <<" ">> \o Join(Tail(ws))

\* the number of leading words that fit in n characters, the first one always
GreedyCount(ws, n) ==
  CHOOSE k \in 1..Len(ws) :
    /\ \A j \in 2..k : Len(Join(SubSeq(ws, 1, j))) <= n
    /\ k < Len(ws) => Len(Join(SubSeq(ws, 1, k + 1))) > n

\* the SetText calls of task t that are live
WaveCalls(t) == {i \in 1..Len(calls) : calls[i].t = t /\ calls[i].fn = "SetText"}

\* task t has its wave behind it: every send_title_text coroutine has returned
\* and gather is about to wake handle_action
WaveSettled(t) == tasks[t].pc = "gather" /\ tasks[t].pending = 0

\* C1 (as claimed): after an update (a source event or SetText) the stored lyrics
\* are the upper-cased text of that update
C1_StoredIsUpperCased == lyrics = Upper(lastStored)

\* C1 (amended): after an update (a source event or SetText) the stored lyrics
\* are the text of that update as it came, for every number of bundles; no
\* fan-out changes them
C1_StoredIsTextAsReceived == lyrics = lastStored

C1_Witness ==
  /\ Len(conns) = 2
  /\ nEvents > 0
  /\ Upper(lastEvent.text) # lastEvent.text
  /\ lyrics = lastEvent.text
  /\ \E t \in 1..Len(tasks) : tasks[t].action = "show_lyrics" /\ WaveSettled(t)

\* C2: a Show wave that has settled made exactly one send_title_text call per
\* mapping per bundle (sum of len(mappings) calls in all), each carrying
\* soft_wrap(upper(text read), max_chars)
C2_ShowFanOut ==
  \A t \in 1..Len(tasks) :
    (tasks[t].action = "show_lyrics" /\ WaveSettled(t)) =>
      /\ Cardinality(WaveCalls(t)) = TotalMappings
      /\ \A b \in Bundles : \A m \in 1..conns[b] :
           Cardinality({i \in WaveCalls(t) : calls[i].b = b /\ calls[i].m = m}) = 1
      /\ \A i \in WaveCalls(t) :
           calls[i].value = soft_wrap(Upper(tasks[t].arg), settings.max_chars_per_line)

C2_Witness ==
  /\ conns = <<1, 1>>
  /\ \E t \in 1..Len(tasks) :
       /\ tasks[t].action = "show_lyrics" /\ WaveSettled(t)
       /\ Cardinality(WaveCalls(t)) = 2
       /\ \A i \in WaveCalls(t) : NewlineCount(calls[i].value) = 1

\* C3: in a settled wave (Show or Clear) every target of every bundle was called
\* although a call failed, no call raised into gather, and no dispatch raised
C3_FailureIsolated ==
  /\ \A t \in 1..Len(tasks) :
       (WaveSettled(t) /\ \E i \in WaveCalls(t) : calls[i].st = "failed") =>
         \A b \in Bundles : \A m \in 1..conns[b] :
           \E i \in WaveCalls(t) : calls[i].b = b /\ calls[i].m = m
  /\ \A i \in 1..Len(calls) : calls[i].res # "raised"
  /\ \A t \in 1..Len(tasks) : tasks[t].pc # "raised"

C3_Witness ==
  \E t \in 1..Len(tasks) :
    /\ WaveSettled(t)
    /\ \E i, j \in WaveCalls(t) :
         /\ i < j
         /\ calls[i].b = 1 /\ calls[i].st = "failed"
         /\ calls[j].b = 2 /\ calls[j].st = "ok"

\* C4: the waves of one listener's events are sent in the order the events
\* came: the task whose wave is sent was scheduled after every task of the same
\* listener whose wave was sent before
C4_SourceOrderKept == [][\A b \in Bundles : lastIssued'[b] >= lastIssued[b]]_vars

C4_Witness ==
  \E b \in Bundles : \E i \in 1..Len(calls) :
    /\ tasks[calls[i].t].src = b
    /\ calls[i].fn = "SetText" /\ calls[i].st = "inflight"
    /\ calls[i].t < lastIssued[b]

IdlePeriod == 1

\* C5 (as claimed): while the process runs, a stamp that has been idle for
\* auto_clear_idle_sec does not outlive the watcher's next tick: the watcher
\* has dispatched Clear and unset the stamp
C5_IdleClearDispatched ==
  ~ /\ phase = "mainloop"
    /\ settings.auto_clear_idle_sec > 0
    /\ last_lyrics_ts # 0
    /\ now - last_lyrics_ts >= settings.auto_clear_idle_sec + IdlePeriod

\* C6 (as claimed): the wait between two connection attempts is the backoff:
\* 2, 4, 8, 15, 15, ... counted from the start or the last successful connect
C6_WaitIsBackoff ==
  \A b \in Bundles :
    (lis[b].pc = "connecting" /\ lis[b].sinceReset >= 1) =>
      lis[b].waited = Min(15, 2 ^ lis[b].sinceReset)

\* C6 (amended): the backoff sleep after the k-th disconnect since the start or
\* the last successful connect lasts min(15, 2^k); only a successful connect
\* sets it back to 2; an invalid URI adds a fixed sleep of 5 before it
C6_BackoffSequence ==
  \A b \in Bundles :
    /\ (lis[b].pc = "connecting" /\ lis[b].sinceReset >= 1) =>
         /\ lis[b].slept = Min(15, 2 ^ lis[b].sinceReset)
         /\ lis[b].waited = lis[b].slept + (IF lis[b].uri_ok THEN 0 ELSE 5)
    /\ lis[b].pc = "sleeping" => lis[b].backoff = Min(15, 2 ^ (lis[b].sinceReset + 1))
    /\ lis[b].pc = "connected" => lis[b].backoff = 2 /\ lis[b].sinceReset = 0

C6_Witness ==
  \E b \in Bundles :
    /\ lis[b].pc = "connecting"
    /\ lis[b].sinceReset = 6
    /\ lis[b].slept = 15

\* the letters a and b are the same up to case
SameLetter(a, b) ==
  \/ a = b
  \/ <<a, b>> \in {<<"B", "b">>, <<"L", "l">>, <<"A", "a">>, <<"N", "n">>, <<"K", "k">>,
                  <<"C", "c">>, <<"E", "e">>, <<"R", "r">>}

EqualsIgnoringCase(s, w) ==
  Len(s) = Len(w) /\ \A i \in 1..Len(s) : SameLetter(s[i], w[i])

\* the field is a string that equals "blank" or "clear", case-insensitively
SaysBlank(v) ==
  /\ v.t = "str"
  /\ \/ EqualsIgnoringCase(v.s, <<"b", "l", "a", "n", "k">>)
     \/ EqualsIgnoringCase(v.s, <<"c", "l", "e", "a", "r">>)

\* the text field is missing, null, empty or all whitespace
TextIsEmpty(v) == v.t # "str" \/ \A i \in 1..Len(v.s) : v.s[i] \in {" ", "\n", "\t"}

\* C7: a frame that parsed to an object is classified blank iff its text is
\* empty or whitespace, or its type or its action says blank or clear
C7_BlankClassification ==
  lastMsg.kind = "obj" =>
    (lastEvent.blank <=>
       (TextIsEmpty(lastMsg.text) \/ SaysBlank(lastMsg.type) \/ SaysBlank(lastMsg.action)))

C7_Witness ==
  /\ lastMsg.kind = "obj"
  /\ lastMsg.text = Str(<<"h", "i">>)
  /\ lastMsg.type = Str(<<"B", "l", "a", "n", "K">>)
  /\ lastMsg.action = Absent
  /\ lastEvent.blank

\* C8 (as claimed): a frame that is not a JSON object raises no event, leaves
\* the lyrics state alone and schedules no command
C8_MalformedDropped ==
  [][(nMsgs' = nMsgs + 1 /\ lastMsg'.kind # "obj") =>
       /\ nEvents' = nEvents
       /\ lyrics' = lyrics
       /\ last_lyrics_ts' = last_lyrics_ts
       /\ tasks' = tasks
       /\ ready' = ready]_vars

\* C9 (as claimed): for N > 0 line 1 is the greedy prefix of the words and
\* line 2 the rest of them, in the order of the input
C9_PrefixAndSuffix ==
  (wDone /\ wN > 0 /\ Split(wText) # <<>>) =>
    LET ws == Split(wText)
        k == GreedyCount(ws, wN)
    IN wOut = IF k = Len(ws) THEN Join(ws)
              ELSE Join(SubSeq(ws, 1, k)) \o <<"\n">> \o Join(SubSeq(ws, k + 1, Len(ws)))

\* C10: for N > 0 the result of soft_wrap holds at most one newline
C10_AtMostTwoLines == (wDone /\ wN > 0) => NewlineCount(wOut) <= 1

C10_Witness ==
  /\ wDone /\ wN > 0
  /\ NewlineCount(wText) >= 2
  /\ Len(Split(wText)) >= 3
  /\ NewlineCount(wOut) = 1

\* the part of s before its first newline
RECURSIVE FirstLine(_)
FirstLine(s) ==
  IF s = <<>> \/ Head(s) = "\n" THEN <<>> ELSE <<Head(s)>> \o FirstLine(Tail(s))

\* how often the word w occurs in the word list ws
Occurrences(ws, w) == Cardinality({i \in 1..Len(ws) : ws[i] = w})

\* C11: for N > 0 the words of the result are the words of the input, each as
\* often (no word is split), the first word is on line 1, line 1 is longer than N
\* only when it is a single word, and a text whose joined words fit in N comes
\* back as that one line
C11_WordsKeptWhole ==
  (wDone /\ wN > 0 /\ Split(wText) # <<>>) =>
    LET ws == Split(wText)
        os == Split(wOut)
        l1 == FirstLine(wOut)
    IN /\ Len(os) = Len(ws)
       /\ \A i \in 1..Len(ws) : Occurrences(os, ws[i]) = Occurrences(ws, ws[i])
       /\ Split(l1) # <<>> /\ Head(Split(l1)) = Head(ws)
       /\ Len(Split(l1)) >= 2 => Len(l1) <= wN
       /\ Len(Join(ws)) <= wN => wOut = Join(ws)

C11_Witness ==
  /\ wDone /\ wN > 0
  /\ Len(Split(wText)) = 2
  /\ Len(FirstLine(wOut)) > wN
  /\ NewlineCount(wOut) = 1
  /\ Len(wOut) > Len(FirstLine(wOut)) + 1

\* C12: for N > 0 the result of soft_wrap on an empty or all-whitespace text is
\* the empty string
C12_BlankGivesEmpty ==
  (wDone /\ wN > 0 /\ \A i \in 1..Len(wText) : wText[i] \in {" ", "\n", "\t"}) =>
    wOut = <<>>

C12_Witness ==
  /\ wDone /\ wN > 0
  /\ Len(wText) >= 2
  /\ \E i \in 1..Len(wText) : wText[i] = "\n"
  /\ \A i \in 1..Len(wText) : wText[i] \in {" ", "\n"}
  /\ wOut = <<>>

\* C13 (as claimed): every event a listener raises stores its text and
\* dispatches exactly one command: clear_lyrics when the event is blank and
\* clear_on_blank is set, show_lyrics otherwise
C13_EventDispatchesOne ==
  [][nEvents' = nEvents + 1 =>
       /\ lyrics' = lastEvent'.text
       /\ last_lyrics_ts' = now
       /\ Len(tasks') = Len(tasks) + 1
       /\ tasks'[Len(tasks')].action =
            (IF lastEvent'.blank /\ settings.clear_on_blank
               THEN "clear_lyrics" ELSE "show_lyrics")
       /\ Len(ready') = Len(ready) + 1]_vars

\* the overlay calls of task t among the calls cl
OverlayCalls(cl, t) == {i \in 1..Len(cl) : cl[i].t = t /\ cl[i].fn = "Overlay"}

\* task t, which runs handle_action(action), leaves its fan-out wave in this step
LeavesWave(t, action) ==
  /\ tasks[t].action = action
  /\ tasks[t].pc = "gather"
  /\ t <= Len(tasks')
  /\ tasks'[t].pc # "gather"

\* in this step task t issues the one overlay command `want` on the first
\* bundle's destination and the configured channel, or none when want is "None"
IssuesOverlay(t, want) ==
  LET ov == OverlayCalls(calls', t) IN
  IF want = "None"
    THEN ov = {} /\ tasks'[t].pc = "done"
    ELSE /\ Cardinality(ov) = 1
         /\ tasks'[t].pc = "overlay"
         /\ \A i \in ov : /\ calls'[i].value = want
                          /\ calls'[i].b = 1
                          /\ calls'[i].m = settings.overlay_channel
                          /\ calls'[i].st = "inflight"

\* C14: a Show that has sent its wave issues exactly one overlay command: On
\* when overlay_always_on, else In when auto_overlay_on_send, else none; the
\* command goes to the first bundle, on the configured channel, and no overlay
\* call ever goes to another bundle
C14_ShowOverlay ==
  /\ [](\A i \in 1..Len(calls) : calls[i].fn = "Overlay" => calls[i].b = 1)
  /\ [][\A t \in 1..Len(tasks) :
          LeavesWave(t, "show_lyrics") =>
            IssuesOverlay(t, IF settings.overlay_always_on THEN "On"
                             ELSE IF settings.auto_overlay_on_send THEN "In"
                             ELSE "None")]_vars

C14_Witness ==
  /\ Len(conns) = 2
  /\ settings.overlay_always_on
  /\ \E t \in 1..Len(tasks) :
       /\ tasks[t].action = "show_lyrics" /\ tasks[t].pc = "overlay"
       /\ \E i \in OverlayCalls(calls, t) : calls[i].value = "On" /\ calls[i].m = 2

\* C15: a Clear that has settled its wave made one send_title_text call with
\* the empty text per mapping per bundle, and then issues Out on the first
\* bundle iff overlay_always_on is off and auto_overlay_out_on_clear is on; with
\* overlay_always_on it issues no overlay command
C15_ClearFanOutAndOverlay ==
  /\ [](\A t \in 1..Len(tasks) :
          (tasks[t].action = "clear_lyrics" /\ WaveSettled(t)) =>
            /\ Cardinality(WaveCalls(t)) = TotalMappings
            /\ \A b \in Bundles : \A m \in 1..conns[b] :
                 Cardinality({i \in WaveCalls(t) : calls[i].b = b /\ calls[i].m = m}) = 1
            /\ \A i \in WaveCalls(t) : calls[i].value = <<>>)
  /\ [][\A t \in 1..Len(tasks) :
          LeavesWave(t, "clear_lyrics") =>
            IssuesOverlay(t, IF ~settings.overlay_always_on
                                  /\ settings.auto_overlay_out_on_clear
                               THEN "Out" ELSE "None")]_vars

C15_Witness ==
  /\ conns = <<1, 1>>
  /\ lyrics # <<>>
  /\ \E t \in 1..Len(tasks) :
       /\ tasks[t].action = "clear_lyrics" /\ tasks[t].pc = "overlay"
       /\ \E i \in OverlayCalls(calls, t) : calls[i].value = "Out" /\ calls[i].b = 1

\* C16: every call a ToggleOverlay makes is the overlay command In on the first
\* bundle's destination, one per dispatch, however many dispatches came before;
\* a ToggleOverlay makes no send_title_text call
C16_ToggleAlwaysIn ==
  \A t \in 1..Len(tasks) :
    tasks[t].action = "toggle_overlay" =>
      /\ tasks[t].pc \in {"new", "overlay"}
      /\ \A i \in 1..Len(calls) :
           calls[i].t = t =>
             calls[i].fn = "Overlay" /\ calls[i].value = "In" /\ calls[i].b = 1
      /\ tasks[t].pc = "overlay" => Cardinality(OverlayCalls(calls, t)) = 1

C16_Witness ==
  /\ Len(conns) = 2
  /\ \E t1, t2 \in 1..Len(tasks) :
       /\ t1 < t2
       /\ tasks[t1].action = "toggle_overlay" /\ tasks[t1].pc = "overlay"
       /\ tasks[t2].action = "toggle_overlay" /\ tasks[t2].pc = "overlay"
       /\ \E i \in OverlayCalls(calls, t1) : calls[i].value = "In" /\ calls[i].st = "failed"
       /\ \E j \in OverlayCalls(calls, t2) : calls[j].value = "In" /\ calls[j].st = "inflight"

\* the recording requests among the calls
RecordingCalls == {i \in 1..Len(calls) : calls[i].fn = "Function"}

\* C17: a recording command sends StartRecording / StopRecording to the first
\* bundle's destination only, and when the request has returned, failed or
\* not, app_state["recording"] is the requested value
C17_RecordingOptimistic ==
  /\ [](\A i \in RecordingCalls :
          /\ calls[i].b = 1
          /\ calls[i].value \in {"StartRecording", "StopRecording"})
  /\ [][\A t \in 1..Len(tasks) :
          (tasks[t].pc = "recording" /\ t <= Len(tasks') /\ tasks'[t].pc = "done") =>
            /\ tasks[t].action = "start_recording" => recording'
            /\ tasks[t].action = "stop_recording" => ~recording'
            /\ \E i \in RecordingCalls :
                 /\ calls[i].t = t
                 /\ calls[i].value = (IF tasks[t].action = "start_recording"
                                        THEN "StartRecording" ELSE "StopRecording")]_vars

C17_Witness ==
  /\ Len(conns) = 2
  /\ recording
  /\ \E i \in RecordingCalls :
       /\ calls[i].value = "StartRecording"
       /\ calls[i].st = "failed"
       /\ tasks[calls[i].t].pc = "done"

\* C18: a dispatched SetText makes no call to any destination, neither when it
\* is scheduled nor when it runs; when it runs it stamps last_lyrics_ts with the
\* current time and leaves the sessions and the recording flag as they are
C18_SetTextLocal ==
  /\ [](\A i \in 1..Len(calls) : tasks[calls[i].t].action # "set_lyrics_text")
  /\ [][\A t \in 1..Len(tasks') :
          /\ (t = Len(tasks) + 1 /\ tasks'[t].action = "set_lyrics_text") =>
               calls' = calls /\ session' = session /\ recording' = recording
          /\ (t <= Len(tasks) /\ tasks[t].action = "set_lyrics_text"
                /\ tasks'[t].pc = "done") =>
               /\ calls' = calls /\ session' = session /\ recording' = recording
               /\ lyrics' = tasks[t].arg
               /\ last_lyrics_ts' = now]_vars

C18_Witness ==
  /\ lyrics = <<"B", " ", "A">>
  /\ last_lyrics_ts = now
  /\ phase = "closing"
  /\ Len(calls) = 1
  /\ calls[1].value = "StartRecording" /\ calls[1].st = "inflight"
  /\ \E t \in 1..Len(tasks) : tasks[t].pc = "done"

\* C19: a listener stopped during its backoff sleep ends without another
\* connection attempt and without the sleep being waited out: from the stop on
\* its thread only ends, with the attempts and the time waited as they were
C19_StopEndsBackoff ==
  [][\A b \in Bundles :
       (~lis[b].running /\ lis[b].stopped_in = "sleeping" /\ lis[b].pc = "sleeping") =>
         \/ lis'[b] = lis[b]
         \/ /\ lis'[b].pc = "exited"
            /\ ~lis'[b].running
            /\ lis'[b].attempts = lis[b].attempts
            /\ lis'[b].waited = lis[b].waited
            /\ lis'[b].slept = lis[b].slept]_vars

C19_Witness ==
  \E b \in Bundles :
    /\ lis[b].pc = "exited"
    /\ lis[b].stopped_in = "sleeping"
    /\ lis[b].backoff = 4
    /\ lis[b].waited = 0
    /\ lis[b].attempts = 2
    /\ lis[b].attempts < lim.attempts

\* C20: start() on a listener that is running changes nothing of it: no new
\* thread, the connect loop stays where it is
C20_StartIdempotent ==
  [][\A b \in Bundles :
       (lis[b].running /\ lis'[b].starts = lis[b].starts + 1) =>
         lis'[b] = [lis[b] EXCEPT !.starts = @ + 1]]_vars

C20_Witness ==
  \E b \in Bundles :
    /\ lis[b].running
    /\ lis[b].starts = 2
    /\ lis[b].threads = 1
    /\ lis[b].pc = "sleeping"
    /\ lis[b].backoff = 4

\* C21 (as claimed): when on_closing has completed, no listener is running and no
\* bundle's VmixController holds an open HTTP session, whatever was pending or in
\* flight on the loop when the shutdown began
C21_ShutdownClosesAll ==
  phase = "closed" =>
    /\ \A b \in Bundles : ~lis[b].running
    /\ \A b \in Bundles : session[b] = "none"

\* the half of C21 that holds: stop() has been requested on every listener
C21_ListenersStopped ==
  phase \in {"closing", "closed"} => \A b \in Bundles : ~lis[b].running

C22_OthersLocked == \A site \in accesses \ {"idle_watcher:210", "idle_watcher:213"} : LockHeld(site)

\* the listeners that are connected: inside `async with websockets.connect(...)`
ConnectedCount(ls) == Cardinality({b \in DOMAIN ls : ls[b].pc = "connected"})

C23_CountsStarted ==
  [][nTicks' = nTicks + 1 =>
       connections_ok' = Cardinality({b \in Bundles : lis'[b].running})]_vars

\* the answers that are a transport failure: no connection, a status other than
\* 200, a body that does not parse
FailedAnswer(answer) == answer.kind \in {"error", "not200", "unparseable"}

\* C25: on every transport failure get_status returns the empty dict, and the
\* pass of poll_status that got it leaves app_state["recording"] and
\* app_state["overlay_on"] both False
C25_UnknownIsOff ==
  /\ \A a \in StatusAnswers : FailedAnswer(a) => DOMAIN get_status(a) = {}
  /\ FailedAnswer(lastPoll) => (~recording /\ ~overlay_on)

C25_Witness ==
  /\ lastPoll.kind = "unparseable"
  /\ ~recording /\ ~overlay_on
  /\ session[1] = "open"
  /\ nTicks = 0
  /\ \E b \in Bundles : lis[b].pc = "connected"

\* C24: no request of a VmixController (SetText, overlay, StartRecording,
\* StopRecording) that failed raised into its caller, and no handle_action
\* coroutine ended with an exception
C24_NoFaultPropagates ==
  /\ \A i \in 1..Len(calls) :
       calls[i].st = "failed" =>
         calls[i].res = "returned" /\ tasks[calls[i].t].pc \notin {"raised"}
  /\ \A t \in 1..Len(tasks) : tasks[t].pc # "raised"

C24_Witness ==
  /\ ~recording
  /\ \E i \in RecordingCalls :
       /\ calls[i].value = "StopRecording"
       /\ calls[i].st = "failed" /\ calls[i].res = "returned"
       /\ tasks[calls[i].t].pc = "done"
  /\ \E t \in 1..Len(tasks) : tasks[t].action = "show_lyrics" /\ tasks[t].pc = "gather"

\* the close() calls among the calls, and those made on bundle b
CloseCalls(b) == {i \in 1..Len(calls) : calls[i].fn = "close" /\ calls[i].b = b}

\* call j is the call on bundle b that follows call i on bundle b
NextOn(b, i, j) ==
  /\ i < j /\ calls[j].b = b
  /\ \A k \in (i + 1)..(j - 1) : calls[k].b # b

\* C26: close() never raises and leaves no session; a close() that follows a
\* close() on the same controller finds no session and leaves none, as does a
\* close() on a controller that never opened one
C26_CloseIdempotent ==
  \A b \in Bundles :
    /\ \A i \in CloseCalls(b) :
         /\ calls[i].res = "returned"
         /\ calls[i].value[2] = "none"
         /\ (\A k \in 1..(i - 1) : calls[k].b # b) => calls[i].value = <<"none", "none">>
    /\ \A i, j \in CloseCalls(b) : NextOn(b, i, j) => calls[j].value = <<"none", "none">>
    /\ (\E i \in CloseCalls(b) : \A k \in (i + 1)..Len(calls) : calls[k].b # b) =>
         session[b] = "none"

C26_Witness ==
  /\ Len(conns) = 2
  /\ Len(calls) = 3
  /\ calls[1].b = 1 /\ calls[1].fn = "SetText" /\ calls[1].value = <<"none", "open">>
  /\ calls[2].b = 1 /\ calls[2].fn = "close" /\ calls[2].value = <<"open", "none">>
  /\ calls[3].b = 1 /\ calls[3].fn = "close" /\ calls[3].res = "returned"
  /\ session = <<"none", "none">>

\* C27 (as claimed): there is no de-duplication: a frame that repeats the
\* previous one raises its own event and its own dispatch, so two identical
\* frames in a row give two events and two dispatches
C27_DuplicateDispatched ==
  [][(nMsgs >= 1 /\ nMsgs' = nMsgs + 1 /\ lastMsg' = lastMsg) =>
       /\ nEvents' = nEvents + 1
       /\ lastEvent'.text = lastEvent.text
       /\ Len(tasks') = Len(tasks) + 1
       /\ Len(ready') = Len(ready) + 1]_vars

\* the half of C27 that holds: every frame raises one event, a repeated frame
\* too, and once the loop exists it is dispatched
C27_DuplicateRaisesEvent ==
  [][(nMsgs >= 1 /\ nMsgs' = nMsgs + 1 /\ lastMsg' = lastMsg) =>
       /\ nEvents' = nEvents + 1
       /\ lastEvent'.text = lastEvent.text
       /\ LoopDefined => (Len(tasks') = Len(tasks) + 1 /\ Len(ready') = Len(ready) + 1)]_vars

\* the listener of bundle b is inside the while loop of _listen_ws
InConnectLoop(l) == l.pc \in {"connecting", "connected", "sleeping", "sleep5"}

\* C28: a listener that is started and not stopped stays in its connect loop
\* whatever fails (a refused connect, an invalid URI, a closed connection, a
\* receive error); every sleep after a failure ends in another connection
\* attempt unless the listener is stopped first, and every attempt of a
\* listener with a valid URI may succeed
C28_ListenerRecovers ==
  /\ [](\A b \in Bundles : lis[b].running => InConnectLoop(lis[b]))
  /\ [](\A b \in Bundles :
          (lis[b].running /\ lis[b].pc = "connecting" /\ lis[b].uri_ok
             /\ lis[b].attempts < lim.attempts) => ENABLED ConnectOk(b))
  /\ ((lis[1].running /\ lis[1].pc \in {"sleeping", "sleep5"})
        ~> (lis[1].pc = "connecting" \/ ~lis[1].running))

C28_Witness ==
  /\ lis[1].running
  /\ lis[1].pc = "connected"
  /\ lis[1].attempts = 3
  /\ lis[1].waited = 4
  /\ lis[1].starts = 1

\* a request to a destination is pending or has failed
DestinationBusy == \E i \in 1..Len(calls) : calls[i].st \in {"inflight", "failed"}

\* C29: while requests to a destination are pending or have failed, a connected
\* listener can still receive its next frame, and the frame it receives then is
\* classified, stored and stamped, and its dispatch is scheduled
C29_ReceptionNeverHalts ==
  /\ [](\A b \in Bundles :
          (DestinationBusy /\ lis[b].pc = "connected" /\ nMsgs + nCmds < lim.ops) =>
            ENABLED (\E m \in BridgeMessages : RecvMessage(b, m)))
  /\ [][(DestinationBusy /\ nMsgs' = nMsgs + 1) =>
          /\ nEvents' = nEvents + 1
          /\ lastEvent'.text = ClassifyText(lastMsg')
          /\ lyrics' = lastEvent'.text
          /\ last_lyrics_ts' = now
          /\ Len(tasks') = Len(tasks) + 1
          /\ tasks'[Len(tasks')].action = EventAction(lastEvent'.blank)
          /\ ready' = Append(ready, Entry("start", Len(tasks'), 0, 0))]_vars

C29_Witness ==
  \E i, j \in 1..Len(ready) :
    /\ i < j
    /\ ready[i].k = "resume"
    /\ tasks[ready[i].t].src # 0
    /\ \E c \in 1..Len(calls) : calls[c].t = ready[i].t /\ calls[c].st = "failed"
    /\ ready[j].k = "start"
    /\ tasks[ready[j].t].src = tasks[ready[i].t].src
    /\ tasks[ready[j].t].ev = 2
    /\ lyrics = lastEvent.text /\ lyrics # <<>>

\* a step of a coroutine on the bridge loop
LoopStep == RunStart \/ RunRecording \/ RunIdle \/ RunSends \/ RunResume

\* a dispatched Show or Clear has not had its first step
PendingDispatch ==
  \E i \in 1..Len(ready) :
    ready[i].k = "start" /\ tasks[ready[i].t].action \in {"show_lyrics", "clear_lyrics"}

\* C30 (as claimed): while the process runs and is not shutting down, a
\* dispatched Show or Clear gets executed: the bridge is able to take the next
\* step of a command that waits, without the shutdown coming first
C30_DispatchRuns ==
  (phase = "mainloop" /\ ~shutdown_event /\ PendingDispatch) => ENABLED LoopStep

\* what holds instead: a request goes out to a destination only while the main
\* thread is inside run_until_complete, at start-up or in on_closing
C30_CallsOnlyInsideRun ==
  [][Len(calls') > Len(calls) => (loopRunning /\ phase \in {"startup", "closing"})]_vars

\* C31 (as claimed): the on_connect / on_disconnect calls of a listener
\* alternate, beginning with on_connect: on_disconnect is never called more
\* often than on_connect, and on_connect at most once more than on_disconnect
C31_EventsAlternate ==
  \A b \in Bundles :
    /\ lis[b].on_disconnects <= lis[b].on_connects
    /\ lis[b].on_connects <= lis[b].on_disconnects + 1

\* what _listen_ws does instead: on_disconnect is called once at the end of
\* every pass of the outer loop, whether the connect of that pass succeeded
\* or not
C31_DisconnectPerAttempt ==
  \A b \in Bundles :
    lis[b].on_disconnects =
      IF lis[b].pc \in {"connected", "sleep5"} THEN lis[b].attempts - 1
      ELSE lis[b].attempts

\* the trigger_overlay calls among the calls
TriggerOverlayCalls == {i \in 1..Len(calls) : calls[i].fn = "trigger_overlay"}

\* C32: every overlay request names a channel in 1..4 and one of In, Out, On,
\* Off, whatever number and action trigger_overlay was called with: a number
\* below 1 gives 1, one above 4 gives 4, one in range is kept, and an action
\* outside the four is replaced by In
C32_OverlayClamped ==
  \A i \in TriggerOverlayCalls :
    LET n == calls[i].args[1]
        a == calls[i].args[2]
    IN /\ calls[i].m \in 1..4
       /\ calls[i].value \in OverlayActions
       /\ n < 1 => calls[i].m = 1
       /\ n > 4 => calls[i].m = 4
       /\ n \in 1..4 => calls[i].m = n
       /\ a \in OverlayActions => calls[i].value = a

C32_Witness ==
  /\ Len(calls) = 3
  /\ calls[1].fn = "trigger_overlay" /\ calls[1].args = <<0, "Toggle">>
  /\ calls[1].m = 1 /\ calls[1].value = "In"
  /\ calls[2].fn = "trigger_overlay" /\ calls[2].args = <<5, "Off">>
  /\ calls[2].m = 4 /\ calls[2].value = "Off"
  /\ calls[3].fn = "trigger_overlay" /\ calls[3].args = <<2, "Out">>
  /\ calls[3].m = 2 /\ calls[3].st = "failed"

\* C33 (as claimed): every ConnBundle of the connections list has at least one
\* mapping, whatever the configuration it was built from
C33_EveryBundleMapped ==
  \A b \in Bundles : conns[b] >= 1

\* what the construction does give: at least one bundle, each with the mappings
\* of its connection object and none for a missing or empty list
C33_BundlesAsConfigured ==
  /\ Len(conns) >= 1
  /\ \E cfg \in ConfigConnections :
       /\ conns = build_connections(cfg)
       /\ \A i \in 1..Len(cfg) : cfg[i] \in {NoMappingsKey, 0} => conns[i] = 0

\* the SetText calls made by Show dispatches
ShowCalls ==
  {i \in 1..Len(calls) :
     calls[i].fn = "SetText" /\ calls[i].t # 0 /\ tasks[calls[i].t].action = "show_lyrics"}

\* C34: the text is wrapped on its way out only.  A Show reads the stored text
\* and computes soft_wrap(upper(text), max_chars_per_line) from it without
\* writing anything back; every SetText call of that Show carries this value;
\* and a step that starts requests leaves the stored text as it was
C34_WrapOnlyOnTransmit ==
  /\ [][\A t \in 1..Len(tasks) :
          (tasks[t].action = "show_lyrics" /\ tasks[t].pc = "new" /\ tasks'[t].pc = "gather") =>
            /\ tasks'[t].arg = lyrics
            /\ tasks'[t].payload = soft_wrap(Upper(lyrics), settings.max_chars_per_line)
            /\ lyrics' = lyrics]_vars
  /\ [][calls' # calls => lyrics' = lyrics]_vars
  /\ [](\A i \in ShowCalls :
          calls[i].value =
            soft_wrap(Upper(tasks[calls[i].t].arg), settings.max_chars_per_line))

C34_Witness ==
  /\ lyrics = <<"h", "i", " ", "y", "o">>
  /\ \E i \in ShowCalls :
       /\ calls[i].st = "inflight"
       /\ calls[i].value = <<"H", "I", "\n", "Y", "O">>
       /\ tasks[calls[i].t].arg = lyrics

C35_IdleClearUnsets ==
  [][\A t \in 1..Len(tasks) :
       (/\ tasks[t].action = "idle"
        /\ tasks[t].pc \in {"gather", "overlay"}
        /\ tasks'[t].pc = "sleep") =>
         last_lyrics_ts' = 0]_vars

\* call i is a SetText request of the wave of a source event, and call j one of
\* a later event's wave to the same field, with another value
EarlierWaveCall(i, j) ==
  /\ calls[i].fn = "SetText" /\ calls[j].fn = "SetText"
  /\ calls[i].b = calls[j].b /\ calls[i].m = calls[j].m
  /\ calls[i].value # calls[j].value
  /\ calls[i].t # 0 /\ calls[j].t # 0
  /\ tasks[calls[i].t].ev > 0
  /\ tasks[calls[i].t].ev < tasks[calls[j].t].ev

\* C36 (as claimed): a field of a destination holds the value of the request
\* that reached it last, and a request has reached it when it ends without
\* failure; no SetText of an earlier event's wave ends that way on a field
\* after the SetText of a later event's wave has, so the field is left with
\* the outcome of the last event
C36_LaterWaveWins ==
  [][\A i, j \in 1..Len(calls) :
       (EarlierWaveCall(i, j) /\ calls[j].st = "ok" /\ calls[i].st = "inflight") =>
         calls'[i].st # "ok"]_vars

\* what does hold: the requests of the waves begin in the order of the events
C36_WavesBeginInOrder ==
  \A i, j \in 1..Len(calls) :
    (EarlierWaveCall(i, j) /\ tasks[calls[i].t].src = tasks[calls[j].t].src) => i < j

\* the threads of listener l that are inside the while loop of _listen_ws
ActiveLoops(l) == {i \in 1..Len(l.thr) : l.thr[i] = "looping"}

\* C37 (as claimed): whatever the order of the start() and stop() calls, at
\* most one thread of a listener is inside its connect loop
C37_OneConnectLoop ==
  \A b \in Bundles : Cardinality(ActiveLoops(lis[b])) <= 1

\* what start() does guarantee: no new thread while self.running is set, so at
\* most one thread per start() that followed a stop() or was the first
C37_NoThreadWhileRunning ==
  [][\A b \in Bundles :
       (lis[b].running /\ lis'[b].starts = lis[b].starts + 1) =>
         lis'[b].thr = lis[b].thr]_vars

\* C38 (as claimed): no on_connect of a listener stays without an on_disconnect
\* after it: when the listener's thread has ended, however it was stopped, the
\* last callback it made was not on_connect
C38_ConnectGetsDisconnect ==
  \A b \in Bundles :
    lis[b].pc = "exited" => lis[b].last_cb # "on_connect"

\* what does hold: a connection that ends while the listener runs is followed
\* by on_disconnect
C38_DisconnectOnDrop ==
  [][\A b \in Bundles :
       (lis[b].pc = "connected" /\ lis'[b].pc \notin {"connected", "exited"}) =>
         /\ lis'[b].last_cb = "on_disconnect"
         /\ lis'[b].on_disconnects = lis[b].on_disconnects + 1]_vars

\* C39: no step of a Clear, dispatched by the operator, by a blank frame or by
\* the idle watcher, changes the stored text or stamps it (the watcher's own
\* assignment after its Clear unsets the stamp, it does not stamp); so a Show
\* that starts afterwards reads and sends the text of the last update
C39_ClearKeepsState ==
  /\ [][\A t \in 1..Len(tasks) :
          (WaveAction(tasks[t]) = "clear_lyrics" /\ tasks'[t] # tasks[t]) =>
            /\ lyrics' = lyrics
            /\ \/ last_lyrics_ts' = last_lyrics_ts
               \/ tasks[t].action = "idle" /\ last_lyrics_ts' = 0]_vars
  /\ [][\A t \in 1..Len(tasks) :
          (tasks[t].action = "show_lyrics" /\ tasks[t].pc = "new" /\ tasks'[t].pc = "gather") =>
            /\ tasks'[t].arg = lastStored
            /\ tasks'[t].payload = soft_wrap(Upper(lastStored), settings.max_chars_per_line)]_vars

C39_Witness ==
  /\ nEvents = 1 /\ nCmds = 1
  /\ lyrics = <<"h", "i", " ", "y", "o">>
  /\ last_lyrics_ts = 0
  /\ \E i \in 1..Len(calls) :
       /\ calls[i].fn = "SetText" /\ calls[i].st = "inflight"
       /\ tasks[calls[i].t].action = "show_lyrics" /\ tasks[calls[i].t].src = 0
       /\ calls[i].value = <<"H", "I", "\n", "Y", "O">>

====
